---- MODULE Spec2Model ----
(***************************************************************************)
(* Model of qapy.task.QTask (src/qapy/task.py): the client-side handle of  *)
(* a task run by a remote cluster, together with the part of the server    *)
(* the client talks to.                                                    *)
(*                                                                         *)
(* A method call is a sequence of instructions kept in `todo`; one         *)
(* instruction is the code between two network requests, so the server is  *)
(* free to move between any two requests of one call.  An exception        *)
(* empties `todo` and is recorded in `ret`.                                *)
(***************************************************************************)
EXTENDS Integers, Sequences, FiniteSets, TLC

VARIABLES
    task,           \* the QTask object's attributes
    srv,            \* the task as the server holds it
    disks,          \* ids of the disks that exist on the server
    locked,         \* ids of the disks that are locked
    now,            \* time.time(), in whole seconds
    todo,           \* instructions left to run in the current call
    call,           \* the current (or last) top-level call and its arguments
    loc,            \* local variables of wait: start, nap, n
    reqs,           \* requests sent by the current (or last) top-level call
    ret,            \* how the last top-level call ended
    obs             \* history: what the refreshes and downloads of the task saw

vars == <<task, srv, disks, locked, now, todo, call, loc, reqs, ret, obs>>

----------------------------------------------------------------------------
\* Bounds of the model.

MaxTime == 12
MaxIdle == 6
MaxFrames == 2
MaxResults == 2
MaxTimeout == 2

\* Program constants.

DefaultCacheTime == 5
MaxNap == 10
InitRescount == -1

----------------------------------------------------------------------------
\* Values.

None == "None"              \* Python None in a field holding a string
NoneInt == <<>>             \* Python None in a field holding a number
Int_(n) == <<n>>            \* a number in such a field
IsInt(x) == x # NoneInt
Val(x) == x[1]

Names == {"t1", "t2"}
Profiles == {"p", "q"}
Ranges == {"[0-1]", "[2-5]"}
Uuid == "u1"
ResourceDiskId == "d1"
ResultDiskId == "r1"

RUNNING_DOWNLOADING_STATES ==
    {"Submitted", "PartiallyDispatched", "FullyDispatched",
     "PartiallyExecuting", "FullyExecuting", "DownloadingResults"}

TerminalStates == {"Success", "Failure", "Cancelled"}

ServerStates == RUNNING_DOWNLOADING_STATES \cup TerminalStates

\* The order in which the server moves a task through its states.
Rank(s) ==
    CASE s = "Submitted" -> 1
      [] s = "PartiallyDispatched" -> 2
      [] s = "FullyDispatched" -> 3
      [] s = "PartiallyExecuting" -> 4
      [] s = "FullyExecuting" -> 5
      [] s = "DownloadingResults" -> 6
      [] OTHER -> 7

Min(a, b) == IF a <= b THEN a ELSE b

----------------------------------------------------------------------------
\* QTask.__init__

\* self._execution_cluster = {}
EmptyCluster == "{}"

\* The constants and the constraints of a task: dictionaries, here sets of
\* <<key, value>> pairs with one value for a key.
ConstKeys == {"k1", "k2"}
ConstValues == {"a", "b"}

IsDict(d) == \A x \in d, y \in d : x[1] = y[1] => x = y

Dicts == {d \in SUBSET (ConstKeys \X ConstValues) : IsDict(d)}

\* d[key] = value
DictSet(d, key, value) ==
    {x \in d : x[1] # key} \cup {<<key, value>>}

\* [{'key': key, 'value': value} for key, value in d.items()]
KeyValueList(d) == {[key |-> x[1], value |-> x[2]] : x \in d}

NewTask(name, profile, framecount_or_range, force) ==
    [ name |-> name,
      profile |-> profile,
      framecount |-> IF IsInt(framecount_or_range.int)
                     THEN framecount_or_range.int ELSE Int_(0),
      advanced_range |-> IF IsInt(framecount_or_range.int)
                         THEN None ELSE framecount_or_range.str,
      force |-> force,
      resource_disk |-> None,
      result_disk |-> None,
      auto_update |-> TRUE,
      update_cache_time |-> DefaultCacheTime,
      last_cache |-> 0,
      state |-> "UnSubmitted",
      uuid |-> None,
      snapshots |-> [isbool |-> TRUE, flag |-> FALSE, interval |-> 0],
      dirty |-> FALSE,
      rescount |-> InitRescount,
      status |-> None,
      error_reason |-> None,
      resource_disk_id |-> None,
      result_disk_id |-> None,
      extra_resource_disks |-> <<>>,
      constants |-> {},
      constraints |-> {},
      execution_cluster |-> EmptyCluster,
      creation_date |-> None,
      snapshot_whitelist |-> None,
      snapshot_blacklist |-> None,
      results_whitelist |-> None,
      results_blacklist |-> None ]

\* What a caller may pass as framecount_or_range: an int or a str.
FramecountOrRange ==
    {[int |-> Int_(n), str |-> None] : n \in 0..MaxFrames}
    \cup {[int |-> NoneInt, str |-> r] : r \in Ranges}

\* No task on the server yet.
NoServerTask ==
    [ exists |-> FALSE, name |-> None, profile |-> None,
      frameCount |-> NoneInt, advancedRanges |-> None,
      resourceDisk |-> None, resultDisk |-> None,
      extraResourceDisks |-> <<>>,
      constants |-> {}, constraints |-> {},
      creationDate |-> None, executionCluster |-> None,
      state |-> "Submitted", resultsCount |-> 0, status |-> None ]

----------------------------------------------------------------------------
\* The server's JSON representation of the task (the body of GET task).
\* A key the representation does not carry reads as None.

\* The creationDate of the representation, "%Y-%m-%dT%H:%M:%SZ", and the
\* datetime strptime makes of it.
CreationDate == "2016-01-01T00:00:00Z"

Strptime(date) ==
    IF date = CreationDate THEN "datetime(2016,1,1,0,0,0)" ELSE None

Representation(s) ==
    [ name |-> s.name,
      profile |-> s.profile,
      frameCount |-> s.frameCount,
      advancedRanges |-> s.advancedRanges,
      resourceDisk |-> s.resourceDisk,
      resultDisk |-> s.resultDisk,
      extraResourceDisks |-> s.extraResourceDisks,
      constants |-> s.constants,
      constraints |-> s.constraints,
      creationDate |-> s.creationDate,
      executionCluster |-> s.executionCluster,
      status |-> s.status,
      errorReason |-> IF s.state = "Failure" THEN "failed" ELSE None,
      id |-> Uuid,
      state |-> s.state,
      resultsCount |-> s.resultsCount ]

TaskJson == Representation(srv)

\* The status code of GET task: 404 when the task is gone, otherwise 200
\* unless the request fails (any other error status).
GetTaskStatus(fails) ==
    IF ~srv.exists THEN 404 ELSE IF fails THEN 500 ELSE 200

\* The outcome of a piece of code: the task after it, the exception it
\* raised, the requests it sent, and whether it applied a representation.
Outcome(t, exc, sent, refreshed) ==
    [t |-> t, exc |-> exc, sent |-> sent, refreshed |-> refreshed]

Returns(t) == Outcome(t, None, <<>>, FALSE)
Raises(t, exc) == Outcome(t, exc, <<>>, FALSE)

----------------------------------------------------------------------------
\* ExtraResourceDisks: the ids are kept in an OrderedSet, here a sequence
\* without repetition, in insertion order.  Each _get is a request; the
\* requests of one method are taken together, each id being looked up
\* once.

ExtraIds == {"e1", "e2"}

Members(uuids) == {uuids[i] : i \in 1..Len(uuids)}

NoDuplicates(uuids) ==
    \A i, j \in 1..Len(uuids) : uuids[i] = uuids[j] => i = j

\* OrderedSet.add
OrderedSetAdd(uuids, disk_uuid) ==
    IF disk_uuid \in Members(uuids) THEN uuids ELSE Append(uuids, disk_uuid)

\* OrderedSet.discard
OrderedSetDiscard(uuids, disk_uuid) ==
    SelectSeq(uuids, LAMBDA d : d # disk_uuid)

\* ExtraResourceDisks._get: the disk, or None when it is missing.
Resolves(disk_uuid) == disk_uuid \in disks

\* add_disk without the lookup of the disk.
UnvalidatedAddDisk(uuids, disk_uuid) ==
    IF disk_uuid \notin Members(uuids)
    THEN OrderedSetAdd(uuids, disk_uuid)
    ELSE uuids

\* ExtraResourceDisks.add_disk
AddDisk(uuids, disk_uuid) ==
    IF disk_uuid \notin Members(uuids)
    THEN IF Resolves(disk_uuid) THEN OrderedSetAdd(uuids, disk_uuid)
         ELSE uuids
    ELSE uuids

\* The request add_disk sends.
AddDiskSends(uuids, disk_uuid) ==
    IF disk_uuid \notin Members(uuids) THEN <<"GET disk">> ELSE <<>>

\* ExtraResourceDisks.remove_disk
RemoveDisk(uuids, disk_uuid) == OrderedSetDiscard(uuids, disk_uuid)

\* refresh that stops at the first member it removes.
RefreshFirstGone(uuids) ==
    IF \A i \in 1..Len(uuids) : Resolves(uuids[i]) THEN uuids
    ELSE LET k == CHOOSE i \in 1..Len(uuids) :
                     /\ ~Resolves(uuids[i])
                     /\ \A j \in 1..(i - 1) : Resolves(uuids[j])
         IN  RemoveDisk(uuids, uuids[k])

\* ExtraResourceDisks.refresh
Refresh(uuids) == SelectSeq(uuids, Resolves)

\* The loop of list_disks over the members `rest`, in their order:
\* result.append(disk) if disk else self.remove_disk(d_uuid)
RECURSIVE ListDisksLoop(_, _, _)
ListDisksLoop(uuids, rest, result) ==
    IF rest = <<>> THEN [uuids |-> uuids, result |-> result]
    ELSE IF Resolves(Head(rest))
         THEN ListDisksLoop(uuids, Tail(rest), Append(result, Head(rest)))
         ELSE ListDisksLoop(RemoveDisk(uuids, Head(rest)), Tail(rest), result)

\* ExtraResourceDisks.list_disks: the set it leaves and the disks it
\* returns, each disk written as its identifier.
ListDisks(uuids) == ListDisksLoop(uuids, uuids, <<>>)

\* The requests of refresh and of list_disks: one for each member.
RefreshSends(uuids) == [i \in 1..Len(uuids) |-> "GET disk"]

\* ExtraResourceDisks.clean
Clean(uuids) == <<>>

\* The set made of the listed disks that resolve, the members dropped.
AddDisksListed(uuids, list) == SelectSeq(list, Resolves)

\* for d_uuid in ...: self._extra_resource_disks.add_disk(d_uuid)
RECURSIVE AddDisks(_, _)
AddDisks(uuids, list) ==
    IF list = <<>> THEN uuids
    ELSE AddDisks(AddDisk(uuids, Head(list)), Tail(list))

RECURSIVE AddDisksSends(_, _)
AddDisksSends(uuids, list) ==
    IF list = <<>> THEN <<>>
    ELSE AddDiskSends(uuids, Head(list))
         \o AddDisksSends(AddDisk(uuids, Head(list)), Tail(list))

----------------------------------------------------------------------------
\* QTask._update, the part that marks new results.
MarkDirty(t, json_task) ==
    IF t.rescount < json_task.resultsCount THEN TRUE ELSE t.dirty

\* QTask._update
ApplyJson(t, json_task) ==
    [t EXCEPT
        !.name = json_task.name,
        !.profile = json_task.profile,
        !.framecount = json_task.frameCount,
        !.advanced_range = json_task.advancedRanges,
        !.resource_disk_id = json_task.resourceDisk,
        !.extra_resource_disks = AddDisks(@, json_task.extraResourceDisks),
        !.result_disk_id = json_task.resultDisk,
        !.execution_cluster = IF json_task.executionCluster # None
                              THEN json_task.executionCluster ELSE @,
        !.status = IF json_task.status # None THEN json_task.status ELSE @,
        !.creation_date = Strptime(json_task.creationDate),
        !.error_reason = IF json_task.errorReason # None
                         THEN json_task.errorReason ELSE "",
        !.uuid = json_task.id,
        !.state = json_task.state,
        !.dirty = MarkDirty(t, json_task),
        !.rescount = json_task.resultsCount]

\* The test of the cache without its flushcache argument.
StickyCacheValid(t, flushcache) ==
    (now - t.last_cache) < t.update_cache_time

\* QTask.update: the test that serves the cached object.
CacheValid(t, flushcache) ==
    (now - t.last_cache) < t.update_cache_time /\ ~flushcache

\* update that stamps the cache before it looks at the answer.
UpdateStampsFirst(t, flushcache, status) ==
    IF t.uuid = None THEN Returns(t)
    ELSE IF CacheValid(t, flushcache) THEN Returns(t)
    ELSE IF status = 404
         THEN Outcome([t EXCEPT !.last_cache = now], "MissingTaskException",
                      <<"GET task">>, FALSE)
    ELSE IF status # 200
         THEN Outcome([t EXCEPT !.last_cache = now], "QApyException",
                      <<"GET task">>, FALSE)
    ELSE Outcome([ApplyJson(t, TaskJson) EXCEPT !.last_cache = now],
                 None,
                 <<"GET task">> \o AddDisksSends(t.extra_resource_disks,
                                                 TaskJson.extraResourceDisks),
                 TRUE)

\* update that leaves the task as it is when the fetch is answered 404.
UpdateQuiet404(t, flushcache, status) ==
    IF t.uuid = None THEN Returns(t)
    ELSE IF CacheValid(t, flushcache) THEN Returns(t)
    ELSE IF status = 404
         THEN Outcome(t, None, <<"GET task">>, FALSE)
    ELSE IF status # 200
         THEN Outcome(t, "QApyException", <<"GET task">>, FALSE)
    ELSE Outcome([ApplyJson(t, TaskJson) EXCEPT !.last_cache = now],
                 None,
                 <<"GET task">> \o AddDisksSends(t.extra_resource_disks,
                                                 TaskJson.extraResourceDisks),
                 TRUE)

\* QTask.update
Update(t, flushcache, status) ==
    IF t.uuid = None THEN Returns(t)
    ELSE IF CacheValid(t, flushcache) THEN Returns(t)
    ELSE IF status = 404
         THEN Outcome(t, "MissingTaskException", <<"GET task">>, FALSE)
    ELSE IF status # 200
         THEN Outcome(t, "QApyException", <<"GET task">>, FALSE)
    ELSE Outcome([ApplyJson(t, TaskJson) EXCEPT !.last_cache = now],
                 None,
                 <<"GET task">> \o AddDisksSends(t.extra_resource_disks,
                                                 TaskJson.extraResourceDisks),
                 TRUE)

\* The head of a getter with a forced update.
GetterForced(t, status) ==
    IF t.auto_update THEN Update(t, TRUE, status) ELSE Returns(t)

\* The head of every property getter: if self._auto_update: self.update()
Getter(t, status) ==
    IF t.auto_update THEN Update(t, FALSE, status) ELSE Returns(t)

\* Runs `second` on the task `first` left, unless `first` raised.
Then(first, second) ==
    IF first.exc # None THEN first
    ELSE Outcome(second.t, second.exc, first.sent \o second.sent,
                 first.refreshed \/ second.refreshed)

----------------------------------------------------------------------------
\* Setters.

\* QTask.name setter
SetName(t, value, status) ==
    LET g == Getter(t, status) IN
    IF g.exc # None THEN g
    ELSE IF g.t.uuid # None
         THEN Outcome(g.t, "AttributeError", g.sent, g.refreshed)
    ELSE Outcome([g.t EXCEPT !.name = value], None, g.sent, g.refreshed)

\* QTask.profile setter
SetProfile(t, value, status) ==
    LET g == Getter(t, status) IN
    IF g.exc # None THEN g
    ELSE IF g.t.uuid # None
         THEN Outcome(g.t, "AttributeError", g.sent, g.refreshed)
    ELSE Outcome([g.t EXCEPT !.profile = value], None, g.sent, g.refreshed)

\* QTask.framecount setter: reads self.uuid, then self.advanced_range.
SetFramecount(t, value, status) ==
    LET g == Getter(t, status) IN
    IF g.exc # None THEN g
    ELSE IF g.t.uuid # None
         THEN Outcome(g.t, "AttributeError", g.sent, g.refreshed)
    ELSE LET h == Then(g, Getter(g.t, status)) IN
         IF h.exc # None THEN h
         ELSE IF h.t.advanced_range # None
              THEN Outcome(h.t, "AttributeError", h.sent, h.refreshed)
         ELSE Outcome([h.t EXCEPT !.framecount = value], None,
                      h.sent, h.refreshed)

\* The advanced_range setter without its test of framecount.
UncheckedSetAdvancedRange(t, value, status) ==
    LET g == Getter(t, status) IN
    IF g.exc # None THEN g
    ELSE Outcome([g.t EXCEPT !.advanced_range = value], None,
                 g.sent, g.refreshed)

\* QTask.advanced_range setter: reads self.framecount.
SetAdvancedRange(t, value, status) ==
    LET g == Getter(t, status) IN
    IF g.exc # None THEN g
    ELSE IF g.t.framecount # Int_(0)
         THEN Outcome(g.t, "AttributeError", g.sent, g.refreshed)
    ELSE Outcome([g.t EXCEPT !.advanced_range = value], None,
                 g.sent, g.refreshed)

----------------------------------------------------------------------------
\* Disks (qapy.disk.QDisk, used through its interface).

\* QDisk._create: a new disk on the server, or an error.
DiskCreate(t, fails) ==
    IF fails THEN Outcome(t, "QApyException", <<"POST disk">>, FALSE)
    ELSE Outcome([t EXCEPT !.resource_disk_id = ResourceDiskId,
                           !.resource_disk = ResourceDiskId],
                 None, <<"POST disk">>, FALSE)

\* QDisk._retrieve of the resource disk.
DiskRetrieve(t) ==
    IF t.resource_disk_id \in disks
    THEN Outcome([t EXCEPT !.resource_disk = t.resource_disk_id],
                 None, <<"GET disk">>, FALSE)
    ELSE Outcome(t, "MissingDiskException", <<"GET disk">>, FALSE)

\* A getter that creates a disk whenever none is bound.
ResourcesBindCreates(t, fails) ==
    IF t.resource_disk = None THEN DiskCreate(t, fails) ELSE Returns(t)

\* QTask.resources getter, up to the disk it binds; the getter's
\* update follows it.
ResourcesBind(t, fails) ==
    IF t.resource_disk = None
    THEN IF t.resource_disk_id = None
         THEN DiskCreate(t, fails) ELSE DiskRetrieve(t)
    ELSE Returns(t)

\* QTask.resources setter with value None
ClearResources(t) ==
    [t EXCEPT !.resource_disk = None, !.resource_disk_id = None]

\* QTask.resources setter
SetResources(t, value) ==
    IF value = None THEN ClearResources(t)
    ELSE [t EXCEPT !.resource_disk = value, !.resource_disk_id = value]

\* QTask.results getter, up to the disk it binds; the getter's update
\* follows it.
ResultsBind(t) ==
    IF t.result_disk = None
    THEN IF t.result_disk_id \in disks
         THEN Outcome([t EXCEPT !.result_disk = t.result_disk_id],
                      None, <<"GET disk">>, FALSE)
         ELSE Outcome(t, "MissingDiskException", <<"GET disk">>, FALSE)
    ELSE Returns(t)

----------------------------------------------------------------------------
\* QTask._to_json: the payload of a creation request.

\* A payload that carries the frame count next to the range.
PlainToJson(t) ==
    [ name |-> t.name,
      profile |-> t.profile,
      resourceDisk |-> t.resource_disk,
      extraResourceDisks |-> t.extra_resource_disks,
      constants |-> KeyValueList(t.constants),
      constraints |-> KeyValueList(t.constraints),
      advancedRanges |-> t.advanced_range,
      frameCount |-> t.framecount,
      snapshotWhitelist |-> t.snapshot_whitelist,
      snapshotBlacklist |-> t.snapshot_blacklist,
      resultsWhitelist |-> t.results_whitelist,
      resultsBlacklist |-> t.results_blacklist ]

\* QTask._to_json
ToJson(t) ==
    [ name |-> t.name,
      profile |-> t.profile,
      resourceDisk |-> t.resource_disk,
      extraResourceDisks |-> t.extra_resource_disks,
      constants |-> KeyValueList(t.constants),
      constraints |-> KeyValueList(t.constraints),
      advancedRanges |-> t.advanced_range,
      frameCount |-> IF t.advanced_range # None THEN NoneInt
                     ELSE t.framecount,
      snapshotWhitelist |-> t.snapshot_whitelist,
      snapshotBlacklist |-> t.snapshot_blacklist,
      resultsWhitelist |-> t.results_whitelist,
      resultsBlacklist |-> t.results_blacklist ]

\* The keys of a payload that always lists the extra resource disks.
ToJsonKeysWithExtras(t) ==
    {"name", "profile", "resourceDisk", "constants", "constraints",
     "extraResourceDisks"}
    \cup (IF t.advanced_range # None THEN {"advancedRanges"}
          ELSE {"frameCount"})
    \cup (IF t.snapshot_whitelist # None THEN {"snapshotWhitelist"} ELSE {})
    \cup (IF t.snapshot_blacklist # None THEN {"snapshotBlacklist"} ELSE {})
    \cup (IF t.results_whitelist # None THEN {"resultsWhitelist"} ELSE {})
    \cup (IF t.results_blacklist # None THEN {"resultsBlacklist"} ELSE {})

\* QTask._to_json: the keys the payload carries.
ToJsonKeys(t) ==
    {"name", "profile", "resourceDisk", "constants", "constraints"}
    \cup (IF Len(t.extra_resource_disks) > 0 THEN {"extraResourceDisks"}
          ELSE {})
    \cup (IF t.advanced_range # None THEN {"advancedRanges"}
          ELSE {"frameCount"})
    \cup (IF t.snapshot_whitelist # None THEN {"snapshotWhitelist"} ELSE {})
    \cup (IF t.snapshot_blacklist # None THEN {"snapshotBlacklist"} ELSE {})
    \cup (IF t.results_whitelist # None THEN {"resultsWhitelist"} ELSE {})
    \cup (IF t.results_blacklist # None THEN {"resultsBlacklist"} ELSE {})

\* The task the server creates from a payload.
Created(payload) ==
    [ exists |-> TRUE,
      name |-> payload.name,
      profile |-> payload.profile,
      frameCount |-> payload.frameCount,
      advancedRanges |-> payload.advancedRanges,
      resourceDisk |-> payload.resourceDisk,
      extraResourceDisks |-> payload.extraResourceDisks,
      constants |-> payload.constants,
      constraints |-> payload.constraints,
      creationDate |-> CreationDate,
      executionCluster |-> None,
      resultDisk |-> None,
      state |-> "Submitted",
      resultsCount |-> 0,
      status |-> None ]

\* QTask.from_json: the constructor, then _update.
FromJson(json_task, force) ==
    LET framecount_or_range ==
            IF IsInt(json_task.frameCount)
            THEN [int |-> json_task.frameCount, str |-> None]
            ELSE [int |-> NoneInt, str |-> json_task.advancedRanges]
        new_task == [NewTask(json_task.name, json_task.profile,
                             framecount_or_range, force)
                        EXCEPT !.last_cache = now]
    IN ApplyJson(new_task, json_task)

----------------------------------------------------------------------------
\* History kept for the properties: the time of the last successful
\* refresh, how many there were (2 stands for two or more), the
\* resultsCount the last one reported, whether some
\* refresh reported a larger resultsCount than the refresh before it, and
\* whether the results were downloaded with no result added since.

NoObs ==
    [lastRefreshAt |-> NoneInt, refreshes |-> 0, lastCount |-> NoneInt,
     increased |-> FALSE, fresh |-> FALSE]

Observe(r) ==
    LET o1 == IF r.refreshed
              THEN [obs EXCEPT
                      !.lastRefreshAt = Int_(now),
                      !.refreshes = Min(@ + 1, 2),
                      !.lastCount = Int_(srv.resultsCount),
                      !.increased = @ \/ (IsInt(obs.lastCount)
                                 /\ srv.resultsCount > Val(obs.lastCount))]
              ELSE obs
    IN IF r.exc = None /\ \E i \in 1..Len(r.sent) : r.sent[i] = "GET files"
       THEN [o1 EXCEPT !.fresh = TRUE] ELSE o1

----------------------------------------------------------------------------
\* Calls and instructions.

\* The locals of a call: those of wait, and the value wait has returned
\* to the method that called it.
NoLoc == [start |-> 0, nap |-> 0, n |-> 0, finished |-> None]

\* Nothing runs and the last call's result has been taken.
Idle == todo = <<>> /\ call.op = "none"

NoCall == [op |-> "none"]

\* The caller takes the result of the call that ended: the record of the
\* call is dropped.
Return ==
    /\ todo = <<>>
    /\ call.op # "none"
    /\ call' = NoCall
    /\ reqs' = <<>>
    /\ ret' = "ok"
    /\ loc' = NoLoc
    /\ UNCHANGED <<task, srv, disks, locked, now, todo, obs>>

\* The environment moves while a call waits for an answer or sleeps, and
\* between calls.
Quiet == todo # <<>> \/ call.op = "none"

\* A top-level call starts: `program` is what it has to run.
Begin(c, program) ==
    /\ Idle
    /\ call' = c
    /\ todo' = program
    /\ reqs' = <<>>
    /\ ret' = "running"
    /\ loc' = NoLoc
    /\ UNCHANGED <<task, srv, disks, locked, now, obs>>

\* An instruction ends with outcome r; `rest` is what is left to run and
\* `value` what the call returns if nothing is.
Finish(r, rest, value) ==
    /\ task' = r.t
    /\ reqs' = reqs \o r.sent
    /\ obs' = Observe(r)
    /\ IF r.exc # None
       THEN todo' = <<>> /\ ret' = r.exc
       ELSE todo' = rest /\ ret' = IF rest = <<>> THEN value ELSE "running"

\* A call made of one instruction.
Single(c, r) ==
    /\ Idle
    /\ call' = c
    /\ task' = r.t
    /\ reqs' = r.sent
    /\ obs' = Observe(r)
    /\ todo' = <<>>
    /\ ret' = IF r.exc # None THEN r.exc ELSE "ok"
    /\ loc' = NoLoc
    /\ UNCHANGED <<srv, disks, locked, now>>

At(instr) == todo # <<>> /\ Head(todo) = instr

----------------------------------------------------------------------------
\* The environment: time, the server, other users of the disks.

Tick ==
    /\ Quiet
    /\ now < MaxIdle
    /\ now' = now + 1
    /\ UNCHANGED <<task, srv, disks, locked, todo, call, loc, reqs, ret, obs>>

\* The server moves the task forward; only a cancel request makes it
\* Cancelled.
ServerAdvance ==
    /\ Quiet
    /\ srv.exists
    /\ srv.state \in RUNNING_DOWNLOADING_STATES
    /\ \E s \in ServerStates \ {"Cancelled"} :
          /\ Rank(s) > Rank(srv.state)
          /\ srv' = [srv EXCEPT !.state = s]
    /\ UNCHANGED <<task, disks, locked, now, todo, call, loc, reqs, ret, obs>>

\* A result (final or snapshot) reaches the result disk.
ServerResult ==
    /\ Quiet
    /\ srv.exists
    /\ srv.state \in RUNNING_DOWNLOADING_STATES
    /\ srv.resultsCount < MaxResults
    /\ srv' = [srv EXCEPT !.resultsCount = @ + 1, !.resultDisk = ResultDiskId]
    /\ disks' = disks \cup {ResultDiskId}
    /\ obs' = [obs EXCEPT !.fresh = FALSE]
    /\ UNCHANGED <<task, locked, now, todo, call, loc, reqs, ret>>

\* The server starts reporting a status for the task.
ServerStatus ==
    /\ Quiet
    /\ srv.exists
    /\ srv.status = None
    /\ srv' = [srv EXCEPT !.status = "status"]
    /\ UNCHANGED <<task, disks, locked, now, todo, call, loc, reqs, ret, obs>>

\* The task is removed from the server by someone else.
ServerDrop ==
    /\ Quiet
    /\ srv.exists
    /\ srv' = NoServerTask
    /\ UNCHANGED <<task, disks, locked, now, todo, call, loc, reqs, ret, obs>>

\* A disk is removed from the server by someone else.
DiskVanish ==
    /\ Quiet
    /\ \E d \in disks : disks' = disks \ {d} /\ locked' = locked \ {d}
    /\ UNCHANGED <<task, srv, now, todo, call, loc, reqs, ret, obs>>

----------------------------------------------------------------------------
\* Calls of one instruction.

CallSetName ==
    \E value \in Names, fails \in BOOLEAN :
        Single([op |-> "name=", value |-> value],
               SetName(task, value, GetTaskStatus(fails)))

CallSetProfile ==
    \E value \in Profiles, fails \in BOOLEAN :
        Single([op |-> "profile=", value |-> value],
               SetProfile(task, value, GetTaskStatus(fails)))

CallSetFramecount ==
    \E value \in 0..MaxFrames, fails \in BOOLEAN :
        Single([op |-> "framecount=", value |-> Int_(value)],
               SetFramecount(task, Int_(value), GetTaskStatus(fails)))

CallSetAdvancedRange ==
    \E value \in Ranges \cup {None}, fails \in BOOLEAN :
        Single([op |-> "advanced_range=", value |-> value],
               SetAdvancedRange(task, value, GetTaskStatus(fails)))

\* The four filters of a task and what a caller may give them.
FilterFields ==
    {"snapshot_whitelist", "snapshot_blacklist",
     "results_whitelist", "results_blacklist"}

Filters == {"*.png", "*.log"}

\* The setters of snapshot_whitelist, snapshot_blacklist,
\* results_whitelist and results_blacklist: self._<field> = value
SetFilter(t, field, value) == Returns([t EXCEPT ![field] = value])

CallSetFilter ==
    \E field \in FilterFields, value \in Filters :
        Single([op |-> "filter=", field |-> field, value |-> value],
               SetFilter(task, field, value))

\* QTask.auto_update setter
CallSetAutoUpdate ==
    \E value \in BOOLEAN :
        Single([op |-> "auto_update=", value |-> value],
               Returns([task EXCEPT !.auto_update = value]))

\* QTask.update_cache_time setter
CallSetUpdateCacheTime ==
    \E value \in {0, DefaultCacheTime} :
        Single([op |-> "update_cache_time=", value |-> value],
               Returns([task EXCEPT !.update_cache_time = value]))

\* The getters that start with the update and return a field of the task.
GetterFields ==
    {"state", "name", "profile", "framecount", "advanced_range",
     "snapshot_whitelist", "snapshot_blacklist", "results_whitelist",
     "results_blacklist", "status", "creation_date", "execution_cluster",
     "error_reason", "uuid"}

\* The field a getter returns, read on the task the update has left.
CallGet ==
    \E field \in GetterFields, fails \in BOOLEAN :
        LET r == Getter(task, GetTaskStatus(fails)) IN
        /\ Single([op |-> "get", field |-> field,
                   value |-> IF r.exc = None THEN r.t[field] ELSE None], r)

CallUpdate ==
    \E flushcache \in BOOLEAN, fails \in BOOLEAN :
        Single([op |-> "update", flushcache |-> flushcache],
               Update(task, flushcache, GetTaskStatus(fails)))

\* QTask.state getter
CallState ==
    \E fails \in BOOLEAN :
        Single([op |-> "state"],
               Getter(task, GetTaskStatus(fails)))

----------------------------------------------------------------------------
\* Instructions shared by several methods.

\* self.update(True) and self.update()
StepUpdate ==
    /\ At("update_T") \/ At("update_F")
    /\ \E fails \in BOOLEAN :
          Finish(Update(task, Head(todo) = "update_T", GetTaskStatus(fails)),
                 Tail(todo), "ok")
    /\ UNCHANGED <<srv, disks, locked, now, call, loc>>

\* The update a property getter starts with.
StepGetter ==
    /\ At("getter")
    /\ \E fails \in BOOLEAN :
          Finish(Getter(task, GetTaskStatus(fails)), Tail(todo), "ok")
    /\ UNCHANGED <<srv, disks, locked, now, call, loc>>

----------------------------------------------------------------------------
\* QTask.snapshot

Intervals == {-1, 1}

\* The status code of POST task snapshot.
SnapshotStatus(interval, fails) ==
    IF ~srv.exists THEN 404
    ELSE IF interval <= 0 THEN 400
    ELSE IF fails THEN 500 ELSE 200

\* The request of snapshot: json={"interval": interval}
SnapshotRequest(interval) ==
    IF interval = 1 THEN "POST task snapshot interval=1"
    ELSE "POST task snapshot interval=-1"

Snapshot(t, interval, status) ==
    IF t.uuid = None
    THEN Returns([t EXCEPT !.snapshots =
                     [isbool |-> FALSE, flag |-> FALSE, interval |-> interval]])
    ELSE IF status = 400
         THEN Outcome(t, "ValueError", <<SnapshotRequest(interval)>>, FALSE)
    ELSE IF status = 404
         THEN Outcome(t, "MissingTaskException", <<SnapshotRequest(interval)>>, FALSE)
    ELSE IF status # 200
         THEN Outcome(t, "QApyException", <<SnapshotRequest(interval)>>, FALSE)
    ELSE Outcome([t EXCEPT !.snapshots =
                     [isbool |-> TRUE, flag |-> TRUE, interval |-> 0]],
                 None, <<SnapshotRequest(interval)>>, FALSE)

CallSnapshot ==
    \E interval \in Intervals, fails \in BOOLEAN :
        Single([op |-> "snapshot", interval |-> interval],
               Snapshot(task, interval, SnapshotStatus(interval, fails)))

----------------------------------------------------------------------------
\* QTask.submit

CallSubmit == Begin([op |-> "submit"], <<"submit">>)

\* submit without the test of the uuid: goes on to the resources.
StepSubmitAgain ==
    /\ At("submit")
    /\ \E fails \in BOOLEAN :
          LET r == Then(ResourcesBind(task, fails),
                        Getter(ResourcesBind(task, fails).t, 200)) IN
          /\ Finish(r, <<"submit_flush">> \o Tail(todo), "ok")
          /\ disks' = IF r.exc = None /\ task.resource_disk = None
                         /\ task.resource_disk_id = None
                      THEN disks \cup {ResourceDiskId} ELSE disks
    /\ UNCHANGED <<srv, locked, now, call, loc>>

\* submit, up to self.resources: returns at once on a submitted task.
StepSubmit ==
    /\ At("submit")
    /\ IF task.uuid # None
       THEN /\ Finish(Returns(task), Tail(todo), task.state)
            /\ UNCHANGED disks
       ELSE \E fails \in BOOLEAN :
              LET r == Then(ResourcesBind(task, fails),
                            Getter(ResourcesBind(task, fails).t, 200)) IN
              /\ Finish(r, <<"submit_flush">> \o Tail(todo), "ok")
              /\ disks' = IF r.exc = None /\ task.resource_disk = None
                             /\ task.resource_disk_id = None
                          THEN disks \cup {ResourceDiskId} ELSE disks
    /\ UNCHANGED <<srv, locked, now, call, loc>>

\* self.resources.flush()
StepSubmitFlush ==
    /\ At("submit_flush")
    /\ Finish(IF task.resource_disk \in disks
              THEN Outcome(task, None, <<"flush disk">>, FALSE)
              ELSE Outcome(task, "MissingDiskException", <<"flush disk">>, FALSE),
              <<"submit_post">> \o Tail(todo), "ok")
    /\ UNCHANGED <<srv, disks, locked, now, call, loc>>

\* The status code of POST tasks.
CreateStatus(payload, answer) ==
    IF payload.resourceDisk \notin disks THEN 404
    ELSE IF answer = "quota" THEN 403
    ELSE IF answer = "error" THEN 500 ELSE 200

\* disk.MissingDiskException(message, disk_id) as submit raises it.
MissingDisk(disk_id) ==
    IF disk_id = None THEN "MissingDiskException(None)"
    ELSE "MissingDiskException(d1)"

\* submit that leaves the resource disk bound on a 404.
SubmitPostBound(t, status) ==
    LET url == IF t.force THEN "POST task force" ELSE "POST tasks" IN
    IF status = 404
    THEN Outcome(t, MissingDisk(t.resource_disk), <<url>>, FALSE)
    ELSE IF status = 403
         THEN Outcome(t, "MaxTaskException", <<url>>, FALSE)
    ELSE IF status # 200
         THEN Outcome(t, "QApyException", <<url>>, FALSE)
    ELSE Outcome([t EXCEPT !.uuid = Uuid], None, <<url>>, FALSE)

\* submit, from the creation request to self._uuid = resp.json()['guid']
SubmitPost(t, status) ==
    LET url == IF t.force THEN "POST task force" ELSE "POST tasks" IN
    IF status = 404
    THEN Outcome(ClearResources(t), MissingDisk(t.resource_disk), <<url>>, FALSE)
    ELSE IF status = 403
         THEN Outcome(t, "MaxTaskException", <<url>>, FALSE)
    ELSE IF status # 200
         THEN Outcome(t, "QApyException", <<url>>, FALSE)
    ELSE Outcome([t EXCEPT !.uuid = Uuid], None, <<url>>, FALSE)

\* What submit has left to do, without the snapshot asked for before.
AfterCreationPlain(t) == <<"update_T">>

\* What submit has left to do once the task is created.
AfterCreation(t) ==
    (IF ~t.snapshots.isbool THEN <<"submit_snapshot">> ELSE <<>>)
    \o <<"update_T">>

StepSubmitPost ==
    /\ At("submit_post")
    /\ \E answer \in {"ok", "quota", "error"} :
          LET payload == ToJson(task)
              status == CreateStatus(payload, answer)
              r == SubmitPost(task, status) IN
          /\ Finish(r, AfterCreation(r.t) \o Tail(todo), "ok")
          /\ srv' = IF status = 200 THEN Created(payload) ELSE srv
    /\ UNCHANGED <<disks, locked, now, call, loc>>

\* self.snapshot(self._snapshots) in submit
StepSubmitSnapshot ==
    /\ At("submit_snapshot")
    /\ \E fails \in BOOLEAN :
          Finish(Snapshot(task, task.snapshots.interval,
                          SnapshotStatus(task.snapshots.interval, fails)),
                 Tail(todo), "ok")
    /\ UNCHANGED <<srv, disks, locked, now, call, loc>>

----------------------------------------------------------------------------
\* QTask.instant and QTask.commit

\* The status code of POST task instant.
InstantStatus(fails) ==
    IF ~srv.exists THEN 404 ELSE IF fails THEN 500 ELSE 200

\* instant, up to its request; a forced update follows.
Instant(t, status) ==
    IF t.uuid = None THEN Returns(t)
    ELSE IF status = 404
         THEN Outcome(t, "MissingTaskException", <<"POST task instant">>, FALSE)
    ELSE IF status # 200
         THEN Outcome(t, "QApyException", <<"POST task instant">>, FALSE)
    ELSE Outcome(t, None, <<"POST task instant">>, FALSE)

CallInstant == Begin([op |-> "instant"], <<"instant">>)

StepInstant ==
    /\ At("instant")
    /\ \E fails \in BOOLEAN :
          LET r == Instant(task, InstantStatus(fails)) IN
          Finish(r, (IF r.sent # <<>> THEN <<"update_T">> ELSE <<>>)
                    \o Tail(todo), "ok")
    /\ UNCHANGED <<srv, disks, locked, now, call, loc>>

\* The status code of PUT task update; no task answers to the url of a
\* task without uuid.
CommitStatus(t, fails) ==
    IF t.uuid = None \/ ~srv.exists THEN 404
    ELSE IF fails THEN 500 ELSE 200

\* The task the server holds once the payload of commit is applied.
Committed(payload) ==
    [srv EXCEPT !.name = payload.name,
                !.profile = payload.profile,
                !.frameCount = payload.frameCount,
                !.advancedRanges = payload.advancedRanges,
                !.resourceDisk = payload.resourceDisk,
                !.extraResourceDisks = payload.extraResourceDisks,
                !.constants = payload.constants,
                !.constraints = payload.constraints]

\* commit: _to_json reads the uuid of the resource disk bound.
Commit(t, status) ==
    IF t.resource_disk = None THEN Raises(t, "AttributeError")
    ELSE IF status = 404
         THEN Outcome(t, "MissingTaskException", <<"PUT task update">>, FALSE)
    ELSE IF status # 200
         THEN Outcome(t, "QApyException", <<"PUT task update">>, FALSE)
    ELSE Outcome(t, None, <<"PUT task update">>, FALSE)

CallCommit ==
    \E fails \in BOOLEAN :
        LET status == CommitStatus(task, fails)
            r == Commit(task, status) IN
        /\ Idle
        /\ call' = [op |-> "commit"]
        /\ task' = r.t
        /\ reqs' = r.sent
        /\ obs' = Observe(r)
        /\ todo' = <<>>
        /\ ret' = IF r.exc # None THEN r.exc ELSE "ok"
        /\ loc' = NoLoc
        /\ srv' = IF r.exc = None THEN Committed(ToJson(task)) ELSE srv
        /\ UNCHANGED <<disks, locked, now>>

----------------------------------------------------------------------------
\* QTask.abort

CallAbort == Begin([op |-> "abort"], <<"update_T", "abort_cancel">>)

\* The test of abort with the states wait treats as finished.
AbortReturnsFinished(t) ==
    \/ t.uuid = None
    \/ t.state \in {"None", "Cancelled", "Success", "Failure"}

\* The test by which abort returns without a request.
AbortReturns(t) ==
    \/ t.uuid = None
    \/ t.state \in {"None", "Cancelled", "Success", "Failure",
                    "DownloadingResults"}

\* The status code of DELETE task.
DeleteTaskStatus(fails) ==
    IF ~srv.exists THEN 404 ELSE IF fails THEN 500 ELSE 200

\* What DELETE task does on the server: it cancels a task that is not
\* finished and removes one that is.
ServerDelete ==
    IF srv.state \in RUNNING_DOWNLOADING_STATES
    THEN [srv EXCEPT !.state = "Cancelled"]
    ELSE NoServerTask

\* abort that marks the task cancelled itself once the request succeeded.
AbortCancelLocal(t, status) ==
    IF AbortReturns(t) THEN Returns(t)
    ELSE IF status = 404
         THEN Outcome(t, "MissingTaskException", <<"DELETE task">>, FALSE)
    ELSE IF status # 200
         THEN Outcome(t, "QApyException", <<"DELETE task">>, FALSE)
    ELSE Outcome([t EXCEPT !.state = "Cancelled"], None,
                 <<"DELETE task">>, FALSE)

\* abort, from its test to the cancel request.
AbortCancel(t, status) ==
    IF AbortReturns(t) THEN Returns(t)
    ELSE IF status = 404
         THEN Outcome(t, "MissingTaskException", <<"DELETE task">>, FALSE)
    ELSE IF status # 200
         THEN Outcome(t, "QApyException", <<"DELETE task">>, FALSE)
    ELSE Outcome(t, None, <<"DELETE task">>, FALSE)

\* abort that returns after its cancel request, without the refresh.
StepAbortCancelOnly ==
    /\ At("abort_cancel")
    /\ \E fails \in BOOLEAN :
          LET status == DeleteTaskStatus(fails)
              r == AbortCancel(task, status) IN
          /\ Finish(r, Tail(todo), "ok")
          /\ srv' = IF r.sent # <<>> /\ status = 200 THEN ServerDelete ELSE srv
    /\ UNCHANGED <<disks, locked, now, call, loc>>

StepAbortCancel ==
    /\ At("abort_cancel")
    /\ \E fails \in BOOLEAN :
          LET status == DeleteTaskStatus(fails)
              r == AbortCancel(task, status) IN
          /\ Finish(r, (IF r.sent # <<>> THEN <<"update_T">> ELSE <<>>)
                       \o Tail(todo), "ok")
          /\ srv' = IF r.sent # <<>> /\ status = 200 THEN ServerDelete ELSE srv
    /\ UNCHANGED <<disks, locked, now, call, loc>>

----------------------------------------------------------------------------
\* QTask.wait

Timeouts ==
    {NoneInt} \cup {Int_(k) : k \in 0..MaxTimeout} \cup {Int_(MaxNap + 1)}

CallWait ==
    \E timeout \in Timeouts, live_progress \in BOOLEAN :
        Begin([op |-> "wait", timeout |-> timeout,
               live_progress |-> live_progress], <<"wait">>)

\* nap = min(10, timeout) if timeout is not None else 10
FirstNap(timeout) ==
    IF IsInt(timeout) THEN Min(MaxNap, Val(timeout)) ELSE MaxNap

\* wait, up to its first refresh: an unsubmitted task returns False.
StepWait ==
    /\ At("wait")
    /\ \E fails \in BOOLEAN :
          LET r == Update(task, TRUE, GetTaskStatus(fails)) IN
          IF task.uuid = None
          THEN /\ Finish(r, Tail(todo), "False")
               /\ loc' = [loc EXCEPT !.finished = "False"]
          ELSE /\ Finish(r, <<"wait_loop">> \o Tail(todo), "ok")
               /\ loc' = [start |-> now, nap |-> FirstNap(call.timeout),
                          n |-> 0, finished |-> None]
    /\ UNCHANGED <<srv, disks, locked, now, call>>

\* The loop test with the states abort treats as running.
StillExecuting(t) ==
    t.state \in RUNNING_DOWNLOADING_STATES \ {"DownloadingResults"}

\* while self._state in RUNNING_DOWNLOADING_STATES
StillRunning(t) == t.state \in RUNNING_DOWNLOADING_STATES

\* The loop test and, without live progress, time.sleep(nap).
StepWaitLoop ==
    /\ At("wait_loop")
    /\ IF ~StillRunning(task)
       THEN /\ Finish(Returns(task), <<"update_T", "wait_true">> \o Tail(todo), "ok")
            /\ UNCHANGED <<now, loc>>
       ELSE IF call.live_progress
       THEN /\ Finish(Returns(task), <<"live_sleep">> \o Tail(todo), "ok")
            /\ loc' = [loc EXCEPT !.n = 0]
            /\ UNCHANGED now
       ELSE /\ now + loc.nap <= MaxTime
            /\ now' = now + loc.nap
            /\ Finish(Returns(task), <<"update_T", "wait_check">> \o Tail(todo), "ok")
            /\ UNCHANGED loc
    /\ UNCHANGED <<srv, disks, locked, call>>

\* With live progress: time.sleep(1); n += 1; if n >= nap: break
StepLiveSleep ==
    /\ At("live_sleep")
    /\ now < MaxTime
    /\ now' = now + 1
    /\ loc' = [loc EXCEPT !.n = @ + 1]
    /\ Finish(Returns(task),
              (IF loc.n + 1 >= loc.nap THEN <<"update_T", "wait_check">>
               ELSE <<"live_status">>) \o Tail(todo), "ok")
    /\ UNCHANGED <<srv, disks, locked, call>>

\* With live progress: self.status is not None, then self.status again.
StepLiveStatus ==
    /\ At("live_status") \/ At("live_status_2")
    /\ \E fails \in BOOLEAN :
          LET r == Getter(task, GetTaskStatus(fails)) IN
          Finish(r, (IF Head(todo) = "live_status" /\ r.t.status # None
                     THEN <<"live_status_2">> ELSE <<"live_sleep">>)
                    \o Tail(todo), "ok")
    /\ UNCHANGED <<srv, disks, locked, now, call, loc>>

\* if timeout <= elapsed
TimedOut(timeout, elapsed) == timeout <= elapsed

\* The timeout test of a wait that cancels the task when the time is out.
StepWaitCheckCancels ==
    /\ At("wait_check")
    /\ LET elapsed == now - loc.start IN
       IF ~IsInt(call.timeout)
       THEN /\ Finish(Returns(task), <<"wait_loop">> \o Tail(todo), "ok")
            /\ UNCHANGED <<loc, srv>>
       ELSE IF TimedOut(Val(call.timeout), elapsed)
       THEN /\ Finish(Outcome(task, None, <<"DELETE task">>, FALSE),
                      <<"update_F", "wait_false">> \o Tail(todo), "ok")
            /\ srv' = IF srv.exists THEN ServerDelete ELSE srv
            /\ UNCHANGED loc
       ELSE /\ Finish(Returns(task), <<"wait_loop">> \o Tail(todo), "ok")
            /\ loc' = [loc EXCEPT !.nap = Min(MaxNap, Val(call.timeout) - elapsed)]
            /\ UNCHANGED srv
    /\ UNCHANGED <<disks, locked, now, call>>

\* A wait whose timeout test never ends the loop.
StepWaitCheckGoesOn ==
    /\ At("wait_check")
    /\ Finish(Returns(task), <<"wait_loop">> \o Tail(todo), "ok")
    /\ UNCHANGED <<srv, disks, locked, now, call, loc>>

\* After the refresh of an iteration: the timeout test.
StepWaitCheck ==
    /\ At("wait_check")
    /\ LET elapsed == now - loc.start IN
       IF ~IsInt(call.timeout)
       THEN /\ Finish(Returns(task), <<"wait_loop">> \o Tail(todo), "ok")
            /\ UNCHANGED loc
       ELSE IF TimedOut(Val(call.timeout), elapsed)
       THEN /\ Finish(Returns(task), <<"update_F", "wait_false">> \o Tail(todo), "ok")
            /\ UNCHANGED loc
       ELSE /\ Finish(Returns(task), <<"wait_loop">> \o Tail(todo), "ok")
            /\ loc' = [loc EXCEPT !.nap = Min(MaxNap, Val(call.timeout) - elapsed)]
    /\ UNCHANGED <<srv, disks, locked, now, call>>

\* return True / return False
StepWaitReturn ==
    /\ At("wait_true") \/ At("wait_false")
    /\ Finish(Returns(task), Tail(todo),
              IF Head(todo) = "wait_true" THEN "True" ELSE "False")
    /\ loc' = [loc EXCEPT !.finished =
                  IF Head(todo) = "wait_true" THEN "True" ELSE "False"]
    /\ UNCHANGED <<srv, disks, locked, now, call>>

----------------------------------------------------------------------------
\* QTask.download_results

CallDownloadResults ==
    Begin([op |-> "download_results"], <<"download_results">>)

\* A download whatever the dirty flag says.
AlwaysDownloads(t) == TRUE

\* if self._dirty: self.results.get_all_files(...)
Downloads(t) == t.dirty

\* download_results, up to the test of the dirty flag.
StepDownloadResults ==
    /\ At("download_results")
    /\ \E fails \in BOOLEAN :
          LET r == IF task.uuid # None
                   THEN Update(task, FALSE, GetTaskStatus(fails))
                   ELSE Returns(task) IN
          Finish(r, (IF Downloads(r.t)
                     THEN <<"results_bind", "getter", "get_all_files">>
                     ELSE <<>>) \o Tail(todo), "ok")
    /\ UNCHANGED <<srv, disks, locked, now, call, loc>>

StepResultsBind ==
    /\ At("results_bind")
    /\ Finish(ResultsBind(task), Tail(todo), "ok")
    /\ UNCHANGED <<srv, disks, locked, now, call, loc>>

\* QDisk.get_all_files on the result disk
StepGetAllFiles ==
    /\ At("get_all_files")
    /\ Finish(IF task.result_disk \in disks
              THEN Outcome(task, None, <<"GET files">>, FALSE)
              ELSE Outcome(task, "MissingDiskException", <<"GET files">>, FALSE),
              Tail(todo), "ok")
    /\ UNCHANGED <<srv, disks, locked, now, call, loc>>

----------------------------------------------------------------------------
\* QTask.delete

PurgeFlags == {"None", "True", "False"}

CallDelete ==
    \E purge_resources \in PurgeFlags, purge_results \in PurgeFlags :
        Begin([op |-> "delete", purge_resources |-> purge_resources,
               purge_results |-> purge_results], <<"delete">>)

\* The second try block of delete and the deletion request.
DeleteResults ==
    <<"del_results_bind", "del_results_getter", "del_results_update",
      "delete_task">>

\* The first try block, then the rest.
DeleteResources ==
    <<"del_res_bind", "del_res_getter", "del_res_update">> \o DeleteResults

\* The test by which delete aborts the task first.
DeleteAborts(t) ==
    /\ t.status # None
    /\ t.state \in {"Submitted", "PartiallyDispatched", "FullyDispatched",
                    "PartiallyExecuting", "FullyExecuting"}

StepDelete ==
    /\ At("delete")
    /\ IF task.uuid = None
       THEN Finish(Returns(task), Tail(todo), "ok")
       ELSE Finish(Returns(task),
                   (IF DeleteAborts(task) THEN <<"update_T", "abort_cancel">>
                    ELSE <<>>) \o DeleteResources, "ok")
    /\ UNCHANGED <<srv, disks, locked, now, call, loc>>

\* No except clause: the exception goes on.
Uncaught(r) == r

\* An except MissingDiskException clause: the exception becomes a warning.
Caught(r) ==
    IF r.exc = "MissingDiskException"
    THEN Outcome(r.t, None, r.sent, r.refreshed) ELSE r

\* The purge test without the lock: an unset flag purges.
PurgesUnlessFalse(flag, disk) == flag # "False"

\* if purge is None: purge = not disk.locked
Purges(flag, disk) ==
    IF flag = "None" THEN disk \notin locked ELSE flag = "True"

\* self.resources, in the first try block
StepDelResBind ==
    /\ At("del_res_bind")
    /\ \E fails \in BOOLEAN :
          LET r == ResourcesBind(task, fails) IN
          /\ Finish(Caught(r),
                    IF r.exc = "MissingDiskException" THEN DeleteResults
                    ELSE Tail(todo), "ok")
          /\ disks' = IF r.exc = None /\ task.resource_disk = None
                         /\ task.resource_disk_id = None
                      THEN disks \cup {ResourceDiskId} ELSE disks
    /\ UNCHANGED <<srv, locked, now, call, loc>>

\* The getter's update, in either try block.
StepDelGetter ==
    /\ At("del_res_getter") \/ At("del_results_getter")
    /\ \E fails \in BOOLEAN :
          Finish(Getter(task, GetTaskStatus(fails)), Tail(todo), "ok")
    /\ UNCHANGED <<srv, disks, locked, now, call, loc>>

\* QDisk.update, then the purge test, in the first try block.
StepDelResUpdate ==
    /\ At("del_res_update")
    /\ IF task.resource_disk \notin disks
       THEN Finish(Outcome(task, None, <<"GET disk">>, FALSE), DeleteResults, "ok")
       ELSE Finish(Outcome(task, None, <<"GET disk">>, FALSE),
                   (IF Purges(call.purge_resources, task.resource_disk)
                    THEN <<"del_res_delete">> ELSE <<>>) \o DeleteResults, "ok")
    /\ UNCHANGED <<srv, disks, locked, now, call, loc>>

\* self._resource_disk.delete(); self.resources = None
StepDelResDelete ==
    /\ At("del_res_delete")
    /\ IF task.resource_disk \notin disks
       THEN /\ Finish(Outcome(task, None, <<"DELETE disk">>, FALSE),
                      DeleteResults, "ok")
            /\ UNCHANGED <<disks, locked>>
       ELSE /\ Finish(Outcome(ClearResources(task), None, <<"DELETE disk">>, FALSE),
                      DeleteResults, "ok")
            /\ disks' = disks \ {task.resource_disk}
            /\ locked' = locked \ {task.resource_disk}
    /\ UNCHANGED <<srv, now, call, loc>>

\* self.results, in the second try block
StepDelResultsBind ==
    /\ At("del_results_bind")
    /\ LET r == ResultsBind(task) IN
       Finish(Caught(r),
              IF r.exc = "MissingDiskException" THEN <<"delete_task">>
              ELSE Tail(todo), "ok")
    /\ UNCHANGED <<srv, disks, locked, now, call, loc>>

\* QDisk.update, then the purge test, in the second try block.
StepDelResultsUpdate ==
    /\ At("del_results_update")
    /\ IF task.result_disk \notin disks
       THEN Finish(Outcome(task, None, <<"GET disk">>, FALSE), <<"delete_task">>, "ok")
       ELSE Finish(Outcome(task, None, <<"GET disk">>, FALSE),
                   (IF Purges(call.purge_results, task.result_disk)
                    THEN <<"del_results_delete">> ELSE <<>>)
                   \o <<"delete_task">>, "ok")
    /\ UNCHANGED <<srv, disks, locked, now, call, loc>>

\* self._result_disk.delete(); the binding and the id are forgotten.
StepDelResultsDelete ==
    /\ At("del_results_delete")
    /\ IF task.result_disk \notin disks
       THEN /\ Finish(Outcome(task, None, <<"DELETE disk">>, FALSE),
                      <<"delete_task">>, "ok")
            /\ UNCHANGED <<disks, locked>>
       ELSE /\ Finish(Outcome([task EXCEPT !.result_disk = None,
                                           !.result_disk_id = None],
                              None, <<"DELETE disk">>, FALSE),
                      <<"delete_task">>, "ok")
            /\ disks' = disks \ {task.result_disk}
            /\ locked' = locked \ {task.result_disk}
    /\ UNCHANGED <<srv, now, call, loc>>

\* delete that forgets the uuid whatever the answer to its request.
DeleteTaskForgets(t, status) ==
    IF status = 404
    THEN Outcome([t EXCEPT !.uuid = None], "MissingTaskException",
                 <<"DELETE task">>, FALSE)
    ELSE IF status # 200
         THEN Outcome([t EXCEPT !.uuid = None], "QApyException",
                      <<"DELETE task">>, FALSE)
    ELSE Outcome([t EXCEPT !.uuid = None], None, <<"DELETE task">>, FALSE)

\* delete, from the deletion request to self._uuid = None
DeleteTask(t, status) ==
    IF status = 404
    THEN Outcome(t, "MissingTaskException", <<"DELETE task">>, FALSE)
    ELSE IF status # 200
         THEN Outcome(t, "QApyException", <<"DELETE task">>, FALSE)
    ELSE Outcome([t EXCEPT !.uuid = None], None, <<"DELETE task">>, FALSE)

StepDeleteTask ==
    /\ At("delete_task")
    /\ \E fails \in BOOLEAN :
          LET status == DeleteTaskStatus(fails) IN
          /\ Finish(DeleteTask(task, status), Tail(todo), "ok")
          /\ srv' = IF status = 200 THEN ServerDelete ELSE srv
    /\ UNCHANGED <<disks, locked, now, call, loc>>

\* A disk is locked or unlocked by its owner.
DiskLock ==
    /\ Quiet
    /\ \E d \in disks :
          locked' = IF d \in locked THEN locked \ {d} ELSE locked \cup {d}
    /\ UNCHANGED <<task, srv, disks, now, todo, call, loc, reqs, ret, obs>>

----------------------------------------------------------------------------
\* The extra resource disks of the task.

\* What a call on the set leaves: the new set and the requests sent.
OnExtras(uuids, sent) ==
    Outcome([task EXCEPT !.extra_resource_disks = uuids], None, sent, FALSE)

CallAddDisk ==
    \E disk_uuid \in ExtraIds :
        Single([op |-> "add_disk", disk_uuid |-> disk_uuid],
               OnExtras(AddDisk(task.extra_resource_disks, disk_uuid),
                        AddDiskSends(task.extra_resource_disks, disk_uuid)))

CallRemoveDisk ==
    \E disk_uuid \in ExtraIds :
        Single([op |-> "remove_disk", disk_uuid |-> disk_uuid],
               OnExtras(RemoveDisk(task.extra_resource_disks, disk_uuid),
                        <<>>))

CallRefresh ==
    Single([op |-> "refresh"],
           OnExtras(Refresh(task.extra_resource_disks),
                    RefreshSends(task.extra_resource_disks)))

\* QTask.extra_resources getter: list_disks
CallListDisks ==
    LET r == ListDisks(task.extra_resource_disks) IN
    Single([op |-> "list_disks", value |-> r.result],
           OnExtras(r.uuids, RefreshSends(task.extra_resource_disks)))

CallClean ==
    Single([op |-> "clean"], OnExtras(Clean(task.extra_resource_disks), <<>>))

\* The lists of disks a caller may assign.
ExtraLists ==
    {<<>>} \cup {<<a>> : a \in ExtraIds}
           \cup {<<a, b>> : a \in ExtraIds, b \in ExtraIds}

\* QTask.extra_resources setter: clean, then add_disk for each disk.
CallSetExtraResources ==
    \E list \in ExtraLists :
        Single([op |-> "extra_resources=", value |-> list],
               OnExtras(AddDisks(Clean(task.extra_resource_disks), list),
                        AddDisksSends(Clean(task.extra_resource_disks), list)))

\* Someone creates a disk that can serve as an extra resource disk.
DiskAppear ==
    /\ Quiet
    /\ \E d \in ExtraIds \ disks : disks' = disks \cup {d}
    /\ UNCHANGED <<task, srv, locked, now, todo, call, loc, reqs, ret, obs>>

----------------------------------------------------------------------------
\* Constants, constraints, and the payload read back.

\* task.constants[key] = value
CallSetConstant ==
    \E key \in ConstKeys, value \in ConstValues :
        Single([op |-> "constants[]=", key |-> key, value |-> value],
               Returns([task EXCEPT !.constants = DictSet(@, key, value)]))

\* task.constraints[key] = value
CallSetConstraint ==
    \E key \in ConstKeys, value \in ConstValues :
        Single([op |-> "constraints[]=", key |-> key, value |-> value],
               Returns([task EXCEPT !.constraints = DictSet(@, key, value)]))

\* QTask.resources getter
CallResources ==
    /\ Idle
    /\ \E fails \in BOOLEAN, status \in {200, 500} :
          LET r == Then(ResourcesBind(task, fails),
                        Getter(ResourcesBind(task, fails).t,
                               IF srv.exists THEN status ELSE 404)) IN
          /\ call' = [op |-> "resources"]
          /\ task' = r.t
          /\ reqs' = r.sent
          /\ obs' = Observe(r)
          /\ ret' = IF r.exc # None THEN r.exc ELSE "ok"
          /\ disks' = IF task.resource_disk = None
                          /\ task.resource_disk_id = None /\ ~fails
                       THEN disks \cup {ResourceDiskId} ELSE disks
    /\ todo' = <<>>
    /\ loc' = NoLoc
    /\ UNCHANGED <<srv, locked, now>>

\* QTask.resources setter, given None or a disk of the account.
CallSetResources ==
    \E value \in {None} \cup disks :
        Single([op |-> "resources=", value |-> value],
               Returns(SetResources(task, value)))

\* The representation a server builds from a payload, read back with
\* from_json: QTask.from_json(conn, representation, force).  The call
\* record keeps the payload and the task read back; self._to_json()
\* raises on a task without resource disk (self._resource_disk.uuid).
CallFromJson ==
    /\ task.uuid = None
    /\ IF task.resource_disk = None
       THEN Single([op |-> "from_json"], Raises(task, "AttributeError"))
       ELSE LET payload == ToJson(task) IN
            Single([op |-> "from_json", payload |-> payload,
                    value |-> FromJson(Representation(Created(payload)),
                                       task.force)],
                   Returns(task))

----------------------------------------------------------------------------
\* QTask.run and QTask.resume

CallRun ==
    \E job_timeout \in Timeouts, live_progress \in BOOLEAN :
        Begin([op |-> "run", timeout |-> job_timeout,
               live_progress |-> live_progress],
              <<"submit", "wait", "run_abort", "download_results">>)

\* run that aborts when its wait has returned False.
StepRunAbortIfUnfinished ==
    /\ At("run_abort")
    /\ Finish(Returns(task),
              (IF loc.finished = "False" THEN <<"update_T", "abort_cancel">>
               ELSE <<>>) \o Tail(todo), "ok")
    /\ UNCHANGED <<srv, disks, locked, now, call, loc>>

\* if job_timeout is not None: self.abort()
StepRunAbort ==
    /\ At("run_abort")
    /\ Finish(Returns(task),
              (IF IsInt(call.timeout) THEN <<"update_T", "abort_cancel">>
               ELSE <<>>) \o Tail(todo), "ok")
    /\ UNCHANGED <<srv, disks, locked, now, call, loc>>

CallResume ==
    \E job_timeout \in Timeouts, live_progress \in BOOLEAN :
        LET c == [op |-> "resume", timeout |-> job_timeout,
                  live_progress |-> live_progress] IN
        IF task.uuid = None
        THEN Single(c, Returns(task))
        ELSE Begin(c, <<"wait", "download_results">>)

----------------------------------------------------------------------------
\* Specifications.

\* The state after QTask(connection, name, profile, framecount_or_range,
\* force), for the arguments of the given sets.
InitWith(names, profiles, frames) ==
    /\ \E name \in names, profile \in profiles, f \in frames :
          task = NewTask(name, profile, f, FALSE)
    /\ srv = NoServerTask
    /\ disks = {}
    /\ locked = {}
    /\ now = 0
    /\ todo = <<>>
    /\ call = NoCall
    /\ loc = NoLoc
    /\ reqs = <<>>
    /\ ret = "ok"
    /\ obs = NoObs

\* A task with a frame count, for the specifications that are not about
\* the configuration.
PlainTask == InitWith({"t1"}, {"p"}, {[int |-> Int_(2), str |-> None]})

SubmitSteps ==
    \/ StepSubmit
    \/ StepSubmitFlush
    \/ StepSubmitPost
    \/ StepUpdate

\* Configuration: the setters, on a task that is submitted, refreshed and
\* deleted.  Time stands still: update_cache_time = 0 makes the getters
\* refresh.
InitConfig == InitWith({"t1"}, {"p"}, FramecountOrRange)

NextConfig ==
    \/ Return
    \/ CallSetName
    \/ CallSetProfile
    \/ CallSetFramecount
    \/ CallSetAdvancedRange
    \/ CallSetAutoUpdate
    \/ CallSetUpdateCacheTime
    \/ CallUpdate
    \/ CallSubmit
    \/ SubmitSteps
    \/ CallDelete
    \/ StepDelete
    \/ StepDelResBind
    \/ StepDelGetter
    \/ StepDelResUpdate
    \/ StepDelResDelete
    \/ StepDelResultsBind
    \/ StepDeleteTask

SpecConfig == InitConfig /\ [][NextConfig]_vars

\* The cache: update and a getter as time passes between the calls.
NextCache ==
    \/ Return
    \/ Tick
    \/ ServerAdvance
    \/ ServerDrop
    \/ CallSetAutoUpdate
    \/ CallSetUpdateCacheTime
    \/ CallUpdate
    \/ CallState
    \/ CallSubmit
    \/ SubmitSteps

SpecCache == PlainTask /\ [][NextCache]_vars

\* Results: what a refresh does with the results the server reports, and
\* their download.  Time stands still: update_cache_time = 0 makes
\* update() refresh.
NextResults ==
    \/ Return
    \/ ServerAdvance
    \/ ServerResult
    \/ ServerDrop
    \/ CallSetUpdateCacheTime
    \/ CallUpdate
    \/ CallSubmit
    \/ SubmitSteps
    \/ CallDownloadResults
    \/ StepDownloadResults
    \/ StepResultsBind
    \/ StepGetter
    \/ StepGetAllFiles

SpecResults == PlainTask /\ [][NextResults]_vars

\* Waiting for a task the server moves forward.  Time passes in the
\* sleeps of wait.
NextWait ==
    \/ Return
    \/ ServerAdvance
    \/ ServerStatus
    \/ ServerDrop
    \/ CallSetUpdateCacheTime
    \/ CallUpdate
    \/ CallSubmit
    \/ SubmitSteps
    \/ CallWait
    \/ StepWait
    \/ StepWaitLoop
    \/ StepLiveSleep
    \/ StepLiveStatus
    \/ StepWaitCheck
    \/ StepWaitReturn

SpecWait == PlainTask /\ [][NextWait]_vars

\* The extra resource disks, with a submission and the refreshes that
\* add the disks the server lists.
NextSet ==
    \/ Return
    \/ DiskAppear
    \/ DiskVanish
    \/ CallAddDisk
    \/ CallRemoveDisk
    \/ CallRefresh
    \/ CallListDisks
    \/ CallClean
    \/ CallSetExtraResources
    \/ CallUpdate
    \/ CallSubmit
    \/ SubmitSteps

SpecSet == PlainTask /\ [][NextSet]_vars

\* The configuration of an unsubmitted task, its payload and the task
\* from_json makes of the representation built from it.
InitJson == InitWith(Names, Profiles, FramecountOrRange)

NextJson ==
    \/ Return
    \/ CallSetFramecount
    \/ CallSetAdvancedRange
    \/ CallSetConstant
    \/ CallSetConstraint
    \/ CallResources
    \/ CallFromJson

SpecJson == InitJson /\ [][NextJson]_vars

\* Submission and abort of a task the server moves forward.
NextAbort ==
    \/ Return
    \/ ServerAdvance
    \/ ServerDrop
    \/ CallSetUpdateCacheTime
    \/ CallSubmit
    \/ SubmitSteps
    \/ CallAbort
    \/ StepAbortCancel

SpecAbort == PlainTask /\ [][NextAbort]_vars

\* wait with the timeout 0 and delete with its default flags.
WaitNoSleep ==
    CallWait /\ call'.timeout = Int_(0) /\ ~call'.live_progress

DeleteDefault ==
    CallDelete /\ call'.purge_resources = "None"
               /\ call'.purge_results = "None"

\* Submission and deletion of a task the server moves forward, with
\* its disks.
NextDelete ==
    \/ Return
    \/ ServerAdvance
    \/ ServerStatus
    \/ ServerResult
    \/ CallUpdate
    \/ CallSubmit
    \/ SubmitSteps
    \/ StepAbortCancel
    \/ DeleteDefault
    \/ StepDelete
    \/ StepDelResBind
    \/ StepDelGetter
    \/ StepDelResUpdate
    \/ StepDelResDelete
    \/ StepDelResultsBind
    \/ StepDelResultsUpdate
    \/ StepDelResultsDelete
    \/ StepDeleteTask

SpecDelete == PlainTask /\ [][NextDelete]_vars

\* Snapshots asked for before and after the submission.
NextSnapshot ==
    \/ Return
    \/ ServerAdvance
    \/ ServerDrop
    \/ CallSnapshot
    \/ CallSubmit
    \/ SubmitSteps
    \/ StepSubmitSnapshot

SpecSnapshot == PlainTask /\ [][NextSnapshot]_vars

\* Every operation that could touch the state of the task.  wait is
\* called with the timeout 0, which polls once without sleeping, and
\* delete with its default flags, which purge the disks not locked.
NextState ==
    \/ Return
    \/ ServerAdvance
    \/ ServerResult
    \/ CallSetName
    \/ CallSubmit
    \/ SubmitSteps
    \/ StepSubmitSnapshot
    \/ CallSnapshot
    \/ CallInstant
    \/ StepInstant
    \/ CallCommit
    \/ CallAbort
    \/ StepAbortCancel
    \/ WaitNoSleep
    \/ StepWait
    \/ StepWaitLoop
    \/ StepWaitCheck
    \/ StepWaitReturn
    \/ DeleteDefault
    \/ StepDelete
    \/ StepDelResBind
    \/ StepDelGetter
    \/ StepDelResUpdate
    \/ StepDelResDelete
    \/ StepDelResultsBind
    \/ StepDelResultsUpdate
    \/ StepDelResultsDelete
    \/ StepDeleteTask

SpecState == PlainTask /\ [][NextState]_vars

\* The owner of the disks locks and unlocks them between two calls.
LockBetweenCalls == DiskLock /\ Idle

\* Deletion with every combination of the purge flags, of disks that are
\* locked, unlocked or gone, and of a task that may be gone too.
NextPurge ==
    \/ Return
    \/ ServerResult
    \/ ServerDrop
    \/ DiskVanish
    \/ LockBetweenCalls
    \/ CallUpdate
    \/ CallSubmit
    \/ SubmitSteps
    \/ CallDelete
    \/ StepDelete
    \/ StepDelResBind
    \/ StepDelGetter
    \/ StepDelResUpdate
    \/ StepDelResDelete
    \/ StepDelResultsBind
    \/ StepDelResultsUpdate
    \/ StepDelResultsDelete
    \/ StepDeleteTask

SpecPurge == PlainTask /\ [][NextPurge]_vars

\* The getters of the fields, with auto_update switched on and off, while
\* time passes and the server moves the task forward.
NextGetters ==
    \/ Return
    \/ Tick
    \/ ServerAdvance
    \/ CallSetAutoUpdate
    \/ CallUpdate
    \/ CallGet
    \/ CallSubmit
    \/ SubmitSteps

SpecGetters == PlainTask /\ [][NextGetters]_vars

\* run and resume without a timeout and with the timeouts 0 and 1,
\* without live progress.
RunTimeouts == {NoneInt, Int_(0), Int_(1)}

RunQuietly ==
    CallRun /\ call'.timeout \in RunTimeouts /\ ~call'.live_progress

ResumeQuietly ==
    CallResume /\ call'.timeout \in RunTimeouts /\ ~call'.live_progress

\* run and resume, on a task the server moves forward and gives results.
NextRun ==
    \/ Return
    \/ ServerAdvance
    \/ ServerResult
    \/ RunQuietly
    \/ StepRunAbort
    \/ ResumeQuietly
    \/ SubmitSteps
    \/ StepWait
    \/ StepWaitLoop
    \/ StepWaitCheck
    \/ StepWaitReturn
    \/ StepAbortCancel
    \/ StepDownloadResults
    \/ StepResultsBind
    \/ StepGetter
    \/ StepGetAllFiles

SpecRun == PlainTask /\ [][NextRun]_vars

\* The filters, set before and after the submission.
NextFilters ==
    \/ Return
    \/ ServerAdvance
    \/ CallSetFilter
    \/ CallSubmit
    \/ SubmitSteps

SpecFilters == PlainTask /\ [][NextFilters]_vars

\* The fields that decide the keys of the payload, set before a
\* submission.
InitPayload == InitWith({"t1"}, {"p"}, FramecountOrRange)

NextPayload ==
    \/ Return
    \/ DiskAppear
    \/ CallAddDisk
    \/ CallRemoveDisk
    \/ CallSetFramecount
    \/ CallSetAdvancedRange
    \/ CallSetFilter
    \/ CallSubmit
    \/ SubmitSteps

SpecPayload == InitPayload /\ [][NextPayload]_vars

\* The resource disk, read and set before and after a submission.
NextResources ==
    \/ Return
    \/ ServerAdvance
    \/ DiskVanish
    \/ CallResources
    \/ CallSetResources
    \/ CallUpdate
    \/ CallSubmit
    \/ SubmitSteps

SpecResources == PlainTask /\ [][NextResources]_vars

\* wait on a task the server moves forward or drops, with the steps of
\* the caller's thread taken as long as one is enabled: a request
\* returns, a sleep ends.
NextWaitFair ==
    \/ Return
    \/ ServerAdvance
    \/ ServerDrop
    \/ CallSubmit
    \/ SubmitSteps
    \/ CallWait
    \/ StepWait
    \/ StepWaitLoop
    \/ StepLiveSleep
    \/ StepLiveStatus
    \/ StepWaitCheck
    \/ StepWaitReturn

WaitProgress ==
    \/ StepWait
    \/ StepWaitLoop
    \/ StepLiveSleep
    \/ StepLiveStatus
    \/ StepWaitCheck
    \/ StepWaitReturn
    \/ StepUpdate

SpecWaitFair ==
    PlainTask /\ [][NextWaitFair]_vars /\ WF_vars(WaitProgress)

----------------------------------------------------------------------------
\* Properties.

InReqs(r) == \E i \in 1..Len(reqs) : reqs[i] = r

\* A call of one instruction is taken in this step.
Calls(op) == call.op = "none" /\ call'.op = op

\* 'framecount > 0', with None > 0 false
FramecountActive(t) == IsInt(t.framecount) /\ Val(t.framecount) > 0

RangeActive(t) == t.advanced_range # None

NotBothActive == ~(FramecountActive(task) /\ RangeActive(task))

SameFrames == /\ task'.framecount = task.framecount
              /\ task'.advanced_range = task.advanced_range

\* C1: never are 'framecount > 0' and 'advanced_range is not None' both
\* true; setting advanced_range while framecount is active raises, setting
\* framecount while advanced_range is active raises, and on a task that is
\* not submitted a set that raises leaves both fields as they were.
C1_MutualExclusion ==
    /\ []NotBothActive
    /\ [][/\ (Calls("advanced_range=") /\ FramecountActive(task))
                => ret' # "ok"
          /\ (Calls("framecount=") /\ RangeActive(task))
                => ret' # "ok"
          /\ ((Calls("advanced_range=") \/ Calls("framecount="))
                /\ task.uuid = None /\ ret' # "ok")
                => SameFrames]_vars

\* C1, witness: a set of advanced_range has just failed on an unsubmitted
\* task whose frame count is active.
C1_Witness ==
    /\ call.op = "advanced_range="
    /\ ret = "AttributeError"
    /\ task.uuid = None
    /\ FramecountActive(task)
    /\ task.advanced_range = None

\* C2: in no reachable state, whether it follows the construction, a
\* setter or a refresh from the server, are 'framecount > 0' and
\* 'advanced_range is not None' both true, and the representation a
\* refresh reads never carries both a frame count and a range.  (A state
\* with neither active is reachable: C2_ExactlyOne.)
C2_NeverBoth ==
    /\ NotBothActive
    /\ ~(srv.exists /\ IsInt(srv.frameCount) /\ srv.advancedRanges # None)

\* C2, witness: after a refresh from the server neither is active.
C2_Witness ==
    /\ obs.refreshes > 0
    /\ task.uuid # None
    /\ ~FramecountActive(task)
    /\ ~RangeActive(task)

\* C2 as stated: exactly one of the two is active in every state.
C2_ExactlyOne == FramecountActive(task) # RangeActive(task)

ConfigSetters == {"name=", "profile=", "framecount=", "advanced_range="}

\* The field a setter stores into.
Field(t, op) ==
    CASE op = "name=" -> t.name
      [] op = "profile=" -> t.profile
      [] op = "framecount=" -> t.framecount
      [] op = "advanced_range=" -> t.advanced_range

\* C3, for a launched task: the setters of name, profile, framecount and
\* advanced_range called while uuid is not None always raise and leave
\* the field as it was.
C3_LaunchedSettersFail ==
    [][\A op \in ConfigSetters :
          (Calls(op) /\ task.uuid # None)
             => (ret' # "ok" /\ Field(task', op) = Field(task, op))]_vars

\* C3, witness: a set of advanced_range has just succeeded on a launched
\* task.
C3_Witness ==
    /\ call.op = "advanced_range="
    /\ ret = "ok"
    /\ task.uuid # None
    /\ task.advanced_range = call.value

\* Less than update_cache_time has passed since the last successful
\* refresh.
InsideWindow ==
    /\ IsInt(obs.lastRefreshAt)
    /\ now - Val(obs.lastRefreshAt) < task.update_cache_time

\* C4: on a submitted task update(False), called less than
\* update_cache_time after the last successful refresh, sends no request
\* and leaves the task as it is, and update(True) always sends the
\* request for the task.
C4_CacheWindow ==
    [][(Calls("update") /\ task.uuid # None)
          => /\ call'.flushcache => (reqs' # <<>> /\ reqs'[1] = "GET task")
             /\ (~call'.flushcache /\ InsideWindow)
                   => (reqs' = <<>> /\ task' = task /\ ret' = "ok")]_vars

\* C4, witness: update(False) has just returned inside the window without
\* a request, although the server holds a newer state of the task.
C4_Witness ==
    /\ call.op = "update"
    /\ ~call.flushcache
    /\ task.uuid # None
    /\ InsideWindow
    /\ now > Val(obs.lastRefreshAt)
    /\ reqs = <<>>
    /\ srv.exists
    /\ srv.state # task.state

\* C6: once the task has been refreshed, dirty is true exactly when some
\* refresh reported a resultsCount greater than the one the refresh
\* before it reported; a first refresh that reports 0 leaves it false.
C6_DirtyIffIncrease ==
    obs.refreshes > 0 => (task.dirty <=> obs.increased)

\* submit has just returned after creating the task, and the first
\* representation it read has state Submitted, resultsCount 0 and no
\* result disk.
JustSubmitted ==
    /\ call.op = "submit"
    /\ todo = <<>>
    /\ ret = "ok"
    /\ InReqs("POST tasks")
    /\ obs.refreshes = 1
    /\ task.state = "Submitted"
    /\ task.rescount = 0
    /\ task.result_disk_id = None

\* C7: after a successful submit whose first representation has state
\* Submitted, resultsCount 0 and no result disk, the state read is
\* 'Submitted' and dirty is false.
C7_CleanAfterSubmit ==
    JustSubmitted => (task.state = "Submitted" /\ ~task.dirty)

\* C8: download_results run while dirty is false sends no request to the
\* result disk, and the files are only requested while dirty is true.
C8_DownloadOnlyWhenDirty ==
    /\ (call.op = "download_results" /\ ~task.dirty)
          => (~InReqs("GET disk") /\ ~InReqs("GET files"))
    /\ (call.op = "download_results" /\ InReqs("GET files")) => task.dirty

\* C8, witness: download_results has returned on a submitted task whose
\* dirty flag is false.
C8_Witness ==
    /\ call.op = "download_results"
    /\ todo = <<>>
    /\ ret = "ok"
    /\ task.uuid # None
    /\ ~task.dirty
    /\ reqs = <<>>

\* This step requests the files of the result disk.
GetsFiles ==
    /\ Len(reqs') = Len(reqs) + 1
    /\ reqs'[Len(reqs')] = "GET files"

\* C9: once the results are downloaded, download_results does not
\* request the files again as long as the server adds no result.
C9_NoSecondDownload ==
    [][(call.op = "download_results" /\ obs.fresh) => ~GetsFiles]_vars

\* The task is on the server in an in-flight state.  The server never
\* takes a task back to such a state, so that a task in flight now has
\* been in flight since its creation.
ServerInFlight ==
    srv.exists /\ srv.state \in RUNNING_DOWNLOADING_STATES

OnlyReads == \A i \in 1..Len(reqs) : reqs[i] = "GET task"

\* C10: wait(timeout=T) on a submitted task whose state on the server
\* stays in flight until the call returns returns False and leaves the
\* local state in RUNNING_DOWNLOADING_STATES; whatever the server does,
\* the only request wait sends is the one that reads the task.
C10_WaitTimesOut ==
    /\ call.op = "wait" => OnlyReads
    /\ (/\ call.op = "wait"
        /\ IsInt(call.timeout)
        /\ todo = <<>>
        /\ ret \in {"True", "False"}
        /\ task.uuid # None
        /\ ServerInFlight)
          => /\ ret = "False"
             /\ task.state \in RUNNING_DOWNLOADING_STATES
             /\ now - loc.start >= Val(call.timeout)

\* C10, witness: wait with a positive timeout has returned False after
\* several refreshes while the task is still in flight on the server.
C10_Witness ==
    /\ call.op = "wait"
    /\ IsInt(call.timeout)
    /\ Val(call.timeout) > 0
    /\ todo = <<>>
    /\ ret = "False"
    /\ task.uuid # None
    /\ ServerInFlight
    /\ Len(reqs) >= 3

\* C5: add_disk never raises; it appends the id when the id is not a
\* member and resolves to a disk, and otherwise leaves the set as it is,
\* so that an id that does not resolve is never added and a second add of
\* an id adds nothing; and the set never holds an id twice, whatever
\* add, remove, refresh, list and clean calls were made.
C5_AddDisk ==
    /\ []NoDuplicates(task.extra_resource_disks)
    /\ [][Calls("add_disk") =>
            LET old == task.extra_resource_disks
                new == task'.extra_resource_disks
                id == call'.disk_uuid IN
            /\ ret' = "ok"
            /\ new = IF id \notin Members(old) /\ id \in disks
                     THEN Append(old, id) ELSE old
            /\ Len(new) <= Len(old) + 1]_vars

\* C5, witness: add_disk of an id that does not resolve has returned, and
\* the set, which holds the other id, does not hold it.
C5_Witness ==
    /\ call.op = "add_disk"
    /\ ret = "ok"
    /\ call.disk_uuid \notin disks
    /\ call.disk_uuid \notin Members(task.extra_resource_disks)
    /\ task.extra_resource_disks # <<>>

\* wait is running on a submitted task and every request it has sent so
\* far was answered: the local state is the one its last refresh read.
WaitRefreshed ==
    /\ call.op = "wait"
    /\ todo # <<>>
    /\ task.uuid # None
    /\ reqs # <<>>

\* C11: once a refresh of wait has read a terminal state (Success,
\* Failure, Cancelled), wait sends no further request before it returns.
C11_NoFetchAfterTerminal ==
    [][(WaitRefreshed /\ task.state \in TerminalStates)
          => reqs' = reqs]_vars

\* wait has returned a boolean on a submitted task.
WaitReturned ==
    /\ call.op = "wait"
    /\ todo = <<>>
    /\ task.uuid # None
    /\ ret \in {"True", "False"}

\* C12: when wait returns on a submitted task, it returns True exactly
\* when the state its last refresh stored is outside
\* RUNNING_DOWNLOADING_STATES; it never returns False while the local
\* state is Success, Failure or Cancelled.
C12_ReturnAgreesWithState ==
    WaitReturned
        => (ret = "True" <=> task.state \notin RUNNING_DOWNLOADING_STATES)

\* from_json has read back the representation built from the payload of
\* the unsubmitted task.
ReadBack ==
    /\ call.op = "from_json"
    /\ ret = "ok"
    /\ task.uuid = None

\* C13: the task from_json makes of the representation built from the
\* payload of _to_json has the name, profile, framecount, advanced_range,
\* constants and constraints of the original task.
C13_RoundTrip ==
    ReadBack =>
        /\ call.value.name = task.name
        /\ call.value.profile = task.profile
        /\ call.value.framecount = task.framecount
        /\ call.value.advanced_range = task.advanced_range
        /\ call.value.constants = task.constants
        /\ call.value.constraints = task.constraints

\* C13, the part that holds: name, profile and advanced_range are read
\* back, and the frame count of a task without range.
C13_ReadBackHolds ==
    ReadBack =>
        /\ call.value.name = task.name
        /\ call.value.profile = task.profile
        /\ call.value.advanced_range = task.advanced_range
        /\ task.advanced_range = None
              => call.value.framecount = task.framecount

\* abort is at its test, after its leading forced refresh, and takes it
\* in this step.
AbortTests ==
    /\ call.op = "abort"
    /\ At("abort_cancel")
    /\ todo' # todo

Takes(instr) == At(instr) /\ todo' # todo

\* C15: snapshot(interval) on an unsubmitted task stores the interval,
\* sends nothing and raises nothing, whatever the interval; the submit
\* that follows sends the snapshot request with that interval right
\* after the creation request has succeeded, and raises ValueError when
\* the server answers it with 400 (an interval that is not positive).
C15_DeferredSnapshot ==
    [][/\ (Calls("snapshot") /\ task.uuid = None)
            => /\ ret' = "ok"
               /\ reqs' = <<>>
               /\ task' = [task EXCEPT !.snapshots =
                              [isbool |-> FALSE, flag |-> FALSE,
                               interval |-> call'.interval]]
       /\ (call.op = "submit" /\ Takes("submit_post")
              /\ task'.uuid # None /\ ~task.snapshots.isbool)
            => Head(todo') = "submit_snapshot"
       /\ (call.op = "submit" /\ Takes("submit_snapshot"))
            => /\ reqs # <<>> /\ reqs[Len(reqs)] = "POST tasks"
               /\ reqs' = Append(reqs, SnapshotRequest(task.snapshots.interval))
               /\ (srv.exists /\ task.snapshots.interval <= 0)
                     => (ret' = "ValueError" /\ todo' = <<>>)]_vars

\* C15, witness: submit has raised ValueError on the answer to the
\* snapshot request that carries the interval -1 stored before.
C15_Witness ==
    /\ call.op = "submit"
    /\ ret = "ValueError"
    /\ todo = <<>>
    /\ task.uuid # None
    /\ task.snapshots.interval = -1
    /\ reqs[Len(reqs)] = "POST task snapshot interval=-1"

\* The creation request of this step has succeeded.
CreationSucceeds ==
    call.op = "submit" /\ Takes("submit_post") /\ task'.uuid # None

\* C16: on a task that has its uuid, submit sends no creation request,
\* flushes no resources and returns the current state; a creation
\* request succeeds only on a task without uuid and the uuid stays once
\* set, so that, with no delete in between, at most one creation request
\* succeeds over any sequence of submit calls.
C16_SubmitOnce ==
    [][/\ (call.op = "submit" /\ Takes("submit") /\ task.uuid # None)
            => /\ todo' = <<>>
               /\ reqs' = <<>>
               /\ ret' = task.state
               /\ task' = task /\ srv' = srv /\ disks' = disks
       /\ CreationSucceeds => task.uuid = None
       /\ task.uuid # None => task'.uuid = task.uuid]_vars

\* C16, witness: a second submit has returned the state of the task it
\* had created, with no request sent.
C16_Witness ==
    /\ call.op = "submit"
    /\ todo = <<>>
    /\ task.uuid # None
    /\ srv.exists
    /\ ret = task.state
    /\ reqs = <<>>

\* The creation request of this step has been answered with a failure.
CreationFails ==
    call.op = "submit" /\ Takes("submit_post") /\ task'.uuid = None

\* C17: a creation request answered 404 makes submit raise the missing
\* disk error with the id of the resource disk and clears the binding
\* of the resource disk; 403 makes it raise the max tasks error; any
\* other failure the general error; in the three cases the uuid stays
\* None and the state stays 'UnSubmitted'.
C17_CreationErrors ==
    [][CreationFails
         => /\ todo' = <<>>
            /\ task.uuid = None
            /\ task'.state = task.state /\ task'.state = "UnSubmitted"
            /\ srv' = srv
            /\ ret' \in {"MissingDiskException(d1)", "MaxTaskException",
                         "QApyException"}
            /\ (ret' = "MissingDiskException(d1)")
                  <=> (task.resource_disk \notin disks)
            /\ IF task.resource_disk \notin disks
               THEN /\ task.resource_disk = ResourceDiskId
                    /\ task' = [task EXCEPT !.resource_disk = None,
                                            !.resource_disk_id = None]
               ELSE task' = task]_vars

\* C17, witness: submit has raised the missing disk error with the id of
\* the disk, the task is unbound, without uuid and 'UnSubmitted'.
C17_Witness ==
    /\ call.op = "submit"
    /\ todo = <<>>
    /\ ret = "MissingDiskException(d1)"
    /\ task.resource_disk = None /\ task.resource_disk_id = None
    /\ task.uuid = None
    /\ task.state = "UnSubmitted"

\* This step has fetched the representation of the task.
Fetches ==
    /\ Len(reqs') > Len(reqs)
    /\ \E i \in (Len(reqs) + 1)..Len(reqs') : reqs'[i] = "GET task"

\* C18: over submit, abort, delete, wait, snapshot, instant, commit and
\* the setters, the state of the task changes only in a step that
\* fetches the representation of the task successfully, and its new
\* value is the state that representation carries.
C18_StateFromServer ==
    [][task'.state # task.state
         => /\ Fetches
            /\ srv.exists /\ srv' = srv
            /\ task'.state = Representation(srv).state]_vars

\* C18, witness: abort has sent its cancel request and its last refresh
\* has stored the state 'Cancelled' of the server.
C18_Witness ==
    /\ call.op = "abort"
    /\ todo = <<>>
    /\ ret = "ok"
    /\ task.state = "Cancelled"
    /\ srv.exists /\ srv.state = "Cancelled"
    /\ \E i \in 1..Len(reqs) : reqs[i] = "DELETE task"

\* This step is an update that has applied the representation it fetched.
RefreshSucceeds ==
    /\ Takes("update_T") \/ Takes("update_F") \/ Calls("update")
    /\ Fetches
    /\ ret' \notin {"MissingTaskException", "QApyException"}

\* What a mirrored field holds when the representation carries no value.
Mirrored(value, absent) == IF value # None THEN value ELSE absent

\* C19: after every successful refresh, state, status, creationDate,
\* errorReason, executionCluster and the count of results are those of
\* the representation just fetched, a field the representation does not
\* carry being absent afterwards (None, the empty string, the empty
\* map): no value of an earlier refresh survives.
C19_MirrorsOverwritten ==
    [][RefreshSucceeds
         => /\ task'.state = TaskJson.state
            /\ task'.status = TaskJson.status
            /\ task'.creation_date = Strptime(TaskJson.creationDate)
            /\ task'.error_reason = Mirrored(TaskJson.errorReason, "")
            /\ task'.execution_cluster =
                   Mirrored(TaskJson.executionCluster, EmptyCluster)
            /\ task'.rescount = TaskJson.resultsCount]_vars

\* C19: the same without the status, which is the one of these fields
\* that survives here.
C19_OthersOverwritten ==
    [][RefreshSucceeds
         => /\ task'.state = TaskJson.state
            /\ task'.creation_date = Strptime(TaskJson.creationDate)
            /\ task'.error_reason = Mirrored(TaskJson.errorReason, "")
            /\ task'.execution_cluster =
                   Mirrored(TaskJson.executionCluster, EmptyCluster)
            /\ task'.rescount = TaskJson.resultsCount]_vars

\* delete takes its test on a submitted task whose state is in flight.
DeletesInFlight ==
    /\ call.op = "delete" /\ Takes("delete")
    /\ task.uuid # None
    /\ task.state \in {"Submitted", "PartiallyDispatched", "FullyDispatched",
                       "PartiallyExecuting", "FullyExecuting"}

\* abort is what the call runs next.
AbortsNext ==
    Len(todo') >= 2 /\ todo'[1] = "update_T" /\ todo'[2] = "abort_cancel"

\* C20: delete on a submitted task whose state is in flight runs abort
\* first, before any purge of a disk and before the deletion request,
\* whether the task holds a status or not.
C20_DeleteAbortsFirst ==
    [][DeletesInFlight => AbortsNext]_vars

\* C20: the same on a task that holds a status, where delete does abort
\* first.
C20_AbortsFirstWithStatus ==
    [][(DeletesInFlight /\ task.status # None) => AbortsNext]_vars

\* The purge the flag and the lock ask for.
PurgeWanted(flag, disk) ==
    IF flag = "None" THEN disk \notin locked ELSE flag = "True"

\* C21: in delete, for the resource disk and for the result disk, the
\* deletion of the disk follows the test if and only if the flag is True,
\* or is unset while the disk is not locked; the deletion step removes
\* the disk, no other step of delete removes one, and a delete with an
\* unset flag never deletes a disk that is locked.
C21_PurgeFlags ==
    [][/\ (call.op = "delete" /\ Takes("del_res_update")
              /\ task.resource_disk \in disks)
            => (At("del_res_delete")'
                  <=> PurgeWanted(call.purge_resources, task.resource_disk))
       /\ (call.op = "delete" /\ Takes("del_results_update")
              /\ task.result_disk \in disks)
            => (At("del_results_delete")'
                  <=> PurgeWanted(call.purge_results, task.result_disk))
       /\ (Takes("del_res_delete") /\ task.resource_disk \in disks)
            => /\ disks' = disks \ {task.resource_disk}
               /\ call.purge_resources # "False"
               /\ call.purge_resources = "None"
                     => task.resource_disk \notin locked
       /\ (Takes("del_results_delete") /\ task.result_disk \in disks)
            => /\ disks' = disks \ {task.result_disk}
               /\ call.purge_results # "False"
               /\ call.purge_results = "None"
                     => task.result_disk \notin locked
       /\ (call.op = "delete" /\ todo' # todo /\ disks' # disks)
            => \/ Takes("del_res_delete") \/ Takes("del_results_delete")
               \/ (Takes("del_res_bind") /\ disks \subseteq disks')]_vars

\* C21, witness: a delete with both flags unset has ended and has left
\* the locked resource disk in place.
C21_Witness ==
    /\ call.op = "delete"
    /\ call.purge_resources = "None"
    /\ todo = <<>> /\ ret = "ok"
    /\ task.uuid = None
    /\ reqs # <<>> /\ reqs[Len(reqs)] = "DELETE task"
    /\ task.resource_disk = ResourceDiskId
    /\ ResourceDiskId \in disks
    /\ ResourceDiskId \in locked

\* A step of the purge block of the resource disk finds the disk gone:
\* the binding of a disk known by its id, or the update or the deletion
\* of the disk bound.
ResourceDiskGone ==
    \/ /\ Takes("del_res_bind")
       /\ task.resource_disk = None
       /\ task.resource_disk_id # None /\ task.resource_disk_id \notin disks
    \/ /\ Takes("del_res_update") \/ Takes("del_res_delete")
       /\ task.resource_disk \notin disks

\* The same in the purge block of the result disk.
ResultDiskGone ==
    \/ /\ Takes("del_results_bind")
       /\ task.result_disk = None
       /\ task.result_disk_id \notin disks
    \/ /\ Takes("del_results_update") \/ Takes("del_results_delete")
       /\ task.result_disk \notin disks

\* C22: a resource or result disk that is gone does not fail delete: a
\* step of a purge block that finds its disk gone raises nothing and
\* leaves the task as it is, the block of the result disk comes after
\* that of the resource disk and the deletion request after that of the
\* result disk, delete never ends with the missing disk error, and the
\* deletion request that succeeds clears the uuid.
C22_GoneDiskTolerated ==
    [][call.op = "delete"
         => /\ ret' # "MissingDiskException"
            /\ ResourceDiskGone
                 => /\ todo' = DeleteResults
                    /\ ret' = "running"
                    /\ task' = task
            /\ ResultDiskGone
                 => /\ todo' = <<"delete_task">>
                    /\ ret' = "running"
                    /\ task' = task
            /\ (Takes("delete_task") /\ ret' = "ok")
                 => /\ task'.uuid = None
                    /\ reqs' = Append(reqs, "DELETE task")]_vars

\* C22, witness: delete has ended well on a task whose resource disk was
\* gone: the result disk has been purged and the uuid is cleared.
C22_Witness ==
    /\ call.op = "delete"
    /\ todo = <<>> /\ ret = "ok"
    /\ task.uuid = None
    /\ task.resource_disk = ResourceDiskId /\ ResourceDiskId \notin disks
    /\ task.rescount > 0
    /\ task.result_disk = None /\ task.result_disk_id = None
    /\ ResultDiskId \notin disks
    /\ reqs[Len(reqs)] = "DELETE task"

\* C23: delete on a task without uuid sends nothing and changes nothing;
\* on a task with a uuid the uuid is cleared by the deletion request that
\* succeeds and by no other step, and a deletion request answered 404
\* ends the call with the missing task error, the uuid still set.
C23_DeleteClearsUuid ==
    [][call.op = "delete"
         => /\ (Takes("delete") /\ task.uuid = None)
                 => /\ todo' = <<>> /\ ret' = "ok"
                    /\ reqs' = <<>>
                    /\ task' = task /\ srv' = srv /\ disks' = disks
            /\ task'.uuid # task.uuid
                 => /\ Takes("delete_task")
                    /\ srv.exists
                    /\ task'.uuid = None
                    /\ ret' = "ok"
            /\ Takes("delete_task")
                 => /\ reqs' = Append(reqs, "DELETE task")
                    /\ todo' = <<>>
                    /\ (ret' = "ok") <=> (task'.uuid = None)
                    /\ ~srv.exists
                         => /\ ret' = "MissingTaskException"
                            /\ task'.uuid = task.uuid
                            /\ task.uuid # None]_vars

\* C23, witness: the deletion request of delete was answered 404: the
\* call has ended with the missing task error and the uuid is still set.
C23_Witness ==
    /\ call.op = "delete"
    /\ todo = <<>>
    /\ ret = "MissingTaskException"
    /\ task.uuid # None
    /\ ~srv.exists
    /\ reqs[Len(reqs)] = "DELETE task"

\* The cached task is still good for an update that is not forced.
CacheFresh == (now - task.last_cache) < task.update_cache_time

\* C24: a getter sends a request exactly when auto_update is on, the
\* task has a uuid and the cache has expired, as update(False) does: it
\* never forces the refresh; the request is the fetch of the task; a
\* getter that sends nothing leaves the task as it is, which is the case
\* of every getter while auto_update is off; the value returned is that
\* of the field after the update.
C24_GettersAutoUpdate ==
    [][Calls("get")
         => /\ (reqs' # <<>>)
                 <=> (task.auto_update /\ task.uuid # None /\ ~CacheFresh)
            /\ reqs' # <<>> => reqs'[1] = "GET task"
            /\ reqs' = <<>> => (task' = task /\ ret' = "ok")
            /\ ~task.auto_update => (reqs' = <<>> /\ task' = task)
            /\ ret' = "ok" => call'.value = task'[call'.field]
            /\ srv' = srv]_vars

\* C24, witness: with auto_update off, the state getter has returned the
\* state of the last update although the cache has expired and the
\* server has moved the task on.
C24_Witness ==
    /\ call.op = "get" /\ call.field = "state"
    /\ ret = "ok" /\ reqs = <<>>
    /\ ~task.auto_update
    /\ task.uuid # None
    /\ ~CacheFresh
    /\ srv.exists /\ srv.state # task.state
    /\ call.value = task.state

\* A step that wait takes, its first included.
WaitSteps ==
    call'.op = "wait" /\ (call.op # "wait" \/ todo' # todo)

\* C25: wait never cancels the task: a step of wait, on whatever path,
\* leaves the task of the server and the disks as they are, and what it
\* adds to the requests of the call is the fetch of the task alone; the
\* return of False on the timeout path is such a step.
C25_WaitOnlyFetches ==
    [][WaitSteps
         => /\ srv' = srv
            /\ disks' = disks
            /\ Len(reqs') >= Len(reqs)
            /\ \A i \in 1..Len(reqs') :
                  IF i <= Len(reqs) THEN reqs'[i] = reqs[i]
                  ELSE reqs'[i] = "GET task"
            /\ task'.uuid = task.uuid]_vars

\* C25, witness: wait has timed out and returned False after a sleep;
\* the task is still executing on the server.
C25_Witness ==
    /\ call.op = "wait"
    /\ IsInt(call.timeout)
    /\ todo = <<>>
    /\ ret = "False"
    /\ task.uuid # None
    /\ now > loc.start
    /\ srv.exists /\ srv.state = "FullyExecuting"
    /\ task.state = "FullyExecuting"

\* The order of run, apart from the test before abort: the creation
\* request comes before wait, wait has returned when the test of abort
\* and download_results are reached, and download_results is the last.
RunInOrder ==
    call.op = "run"
      => /\ Takes("submit_post") => loc.finished = None
         /\ Takes("wait") => (task.uuid # None /\ loc.finished = None)
         /\ Takes("run_abort") => loc.finished \in {"True", "False"}
         /\ Takes("abort_cancel") => loc.finished \in {"True", "False"}
         /\ Takes("download_results")
              => (loc.finished \in {"True", "False"}
                    /\ todo = <<"download_results">>)

\* resume: nothing on a task without uuid; otherwise wait, then
\* download_results, and no request that creates or cancels.
ResumeInOrder ==
    /\ (Calls("resume") /\ task.uuid = None)
         => (todo' = <<>> /\ reqs' = <<>> /\ task' = task /\ srv' = srv)
    /\ (Calls("resume") /\ task.uuid # None)
         => todo' = <<"wait", "download_results">>
    /\ call.op = "resume"
         => /\ Takes("download_results") => loc.finished \in {"True", "False"}
            /\ \A i \in 1..Len(reqs') :
                  reqs'[i] \in {"GET task", "GET disk", "GET files"}

\* C26: run submits, waits, aborts only if its wait has returned False,
\* then downloads the results, in that order; resume waits and downloads
\* without submitting and does nothing on a task without uuid.
C26_RunAbortsIfTimedOut ==
    [][/\ RunInOrder
       /\ ResumeInOrder
       /\ (call.op = "run" /\ Takes("run_abort"))
            => (AbortsNext <=> loc.finished = "False")]_vars

\* C26, as the code has it: run calls abort if and only if a timeout was
\* given, whatever its wait has returned; the cancel request of that
\* abort is sent only after a wait that has returned False.
C26_RunAbortsIfTimeoutGiven ==
    [][/\ RunInOrder
       /\ ResumeInOrder
       /\ (call.op = "run" /\ Takes("run_abort"))
            => (AbortsNext <=> IsInt(call.timeout))
       /\ (call.op = "run" /\ Takes("abort_cancel")
              /\ Len(reqs') > Len(reqs))
            => loc.finished = "False"]_vars

\* C26, witness: a run with a timeout has ended; its wait had returned
\* True, and its abort has fetched the task and sent no cancel request.
C26_Witness ==
    /\ call.op = "run"
    /\ IsInt(call.timeout)
    /\ loc.finished = "True"
    /\ todo = <<>> /\ ret = "ok"
    /\ Len(reqs) >= 7
    /\ \A i \in 1..Len(reqs) : reqs[i] # "DELETE task"

\* C27: once the task has a uuid, the setters of snapshot_whitelist,
\* snapshot_blacklist, results_whitelist and results_blacklist raise
\* AttributeError and leave the task as it is.
C27_FiltersImmutable ==
    [][(Calls("filter=") /\ task.uuid # None)
         => (ret' = "AttributeError" /\ task' = task)]_vars

\* C27: before the submission the setters store the value they are given.
C27_FiltersSetBefore ==
    [][(Calls("filter=") /\ task.uuid = None)
         => /\ ret' = "ok" /\ reqs' = <<>>
            /\ task' = [task EXCEPT ![call'.field] = call'.value]]_vars

\* abort takes its test on a task with a uuid whose state, just
\* refreshed, is one of the five that are cancelled.
AbortsInFlight ==
    /\ call.op = "abort" /\ AbortTests
    /\ task.uuid # None
    /\ task.state \in {"Submitted", "PartiallyDispatched", "FullyDispatched",
                       "PartiallyExecuting", "FullyExecuting"}

\* C28: abort on a task with a uuid whose state after the leading
\* refresh is Submitted, PartiallyDispatched, FullyDispatched,
\* PartiallyExecuting or FullyExecuting sends one cancel request; when
\* the request succeeds a forced refresh follows, after which abort
\* returns with the state the server has reported then and with no other
\* request; when the request is answered 404 abort raises the missing
\* task error.
C28_AbortCancels ==
    [][/\ AbortsInFlight
            => /\ reqs = <<"GET task">>
               /\ reqs' = <<"GET task", "DELETE task">>
               /\ task' = task
               /\ IF ~srv.exists
                  THEN ret' = "MissingTaskException" /\ todo' = <<>>
                  ELSE \/ ret' = "QApyException" /\ todo' = <<>> /\ srv' = srv
                       \/ /\ ret' = "running" /\ todo' = <<"update_T">>
                          /\ srv' = ServerDelete
       /\ (call.op = "abort" /\ Takes("update_T") /\ Len(reqs) = 2)
            => /\ reqs' = <<"GET task", "DELETE task", "GET task">>
               /\ todo' = <<>>
               /\ ret' = "ok" => task'.state = srv.state
       /\ call.op = "abort" => Len(reqs') <= 3]_vars

\* C28, witness: abort has cancelled a task that was executing: one
\* cancel request between two fetches, and the state is the one the
\* server reported after it.
C28_Witness ==
    /\ call.op = "abort"
    /\ todo = <<>> /\ ret = "ok"
    /\ reqs = <<"GET task", "DELETE task", "GET task">>
    /\ task.state = "Cancelled"
    /\ srv.exists /\ srv.state = "Cancelled"
    /\ task.uuid # None

\* This step has fetched the representation of a task the server no
\* longer has: the fetch is answered 404.
FetchesMissing == Fetches /\ ~srv.exists

Place(uuids, d) == CHOOSE k \in 1..Len(uuids) : uuids[k] = d

\* `kept` holds the members of `uuids` that resolve and no others, in
\* the order they have in `uuids`.
KeepsResolving(kept, uuids) ==
    /\ Members(kept) = {d \in Members(uuids) : Resolves(d)}
    /\ NoDuplicates(kept)
    /\ \A i, j \in 1..Len(kept) :
          i < j => Place(uuids, kept[i]) < Place(uuids, kept[j])

\* C30: refresh and list_disks look every member up once; they leave in
\* the set the members that resolve and no others, in the order they
\* had; list_disks returns the disks of those members in that order.
C30_SetPrunes ==
    [][/\ Calls("refresh") \/ Calls("list_disks")
            => /\ KeepsResolving(task'.extra_resource_disks,
                                 task.extra_resource_disks)
               /\ Len(reqs') = Len(task.extra_resource_disks)
               /\ ret' = "ok"
       /\ Calls("list_disks")
            => /\ KeepsResolving(call'.value, task.extra_resource_disks)
               /\ call'.value = task'.extra_resource_disks]_vars

\* C30, witness: list_disks on a set of two members has dropped the
\* first, whose disk is gone, and returned the disk of the second.
C30_Witness ==
    /\ call.op = "list_disks"
    /\ Len(reqs) = 2
    /\ Len(task.extra_resource_disks) = 1
    /\ call.value = task.extra_resource_disks
    /\ Resolves(task.extra_resource_disks[1])
    /\ \E d \in ExtraIds : ~Resolves(d)

\* The payload key of each filter.
FilterKey ==
    [snapshot_whitelist |-> "snapshotWhitelist",
     snapshot_blacklist |-> "snapshotBlacklist",
     results_whitelist |-> "resultsWhitelist",
     results_blacklist |-> "resultsBlacklist"]

\* C31: the payload _to_json builds of the task carries exactly one of
\* the keys frameCount and advancedRanges, carries extraResourceDisks if
\* and only if the extra resource set is not empty, and carries the key
\* of each of the four filters if and only if that filter is set.
C31_PayloadKeys ==
    LET keys == ToJsonKeys(task) IN
    /\ ("frameCount" \in keys) # ("advancedRanges" \in keys)
    /\ "frameCount" \in keys => IsInt(ToJson(task).frameCount)
    /\ "advancedRanges" \in keys => ToJson(task).advancedRanges # None
    /\ "extraResourceDisks" \in keys <=> task.extra_resource_disks # <<>>
    /\ \A f \in FilterFields : FilterKey[f] \in keys <=> task[f] # None

\* C31, witness: submit has created a task with a range, one extra
\* resource disk and one filter: its payload carried advancedRanges,
\* extraResourceDisks and snapshotWhitelist, and neither frameCount nor
\* the other three filters.
C31_Witness ==
    /\ call.op = "submit" /\ todo = <<>> /\ ret = "ok"
    /\ srv.exists
    /\ task.advanced_range # None
    /\ task.extra_resource_disks # <<>>
    /\ task.snapshot_whitelist # None
    /\ ToJsonKeys(task) =
          {"name", "profile", "resourceDisk", "constants", "constraints",
           "extraResourceDisks", "advancedRanges", "snapshotWhitelist"}

\* The snapshot flag is active: self._snapshots is True.
SnapshotsActive(t) == t.snapshots.isbool /\ t.snapshots.flag

\* C32: once a snapshot request has succeeded on a submitted task, the
\* snapshot flag is active and no later client operation makes it
\* anything other than active.
C32_SnapshotsStayActive ==
    [][SnapshotsActive(task) => SnapshotsActive(task')]_vars

\* C32, the case: a snapshot request has just succeeded on a submitted
\* task and has made the flag active.
C32_Activated ==
    /\ call.op = "snapshot" /\ ret = "ok"
    /\ reqs = <<SnapshotRequest(1)>>
    /\ task.uuid # None
    /\ SnapshotsActive(task)

\* C32, what holds: the flag stays active in every step taken while the
\* task has a uuid.
C32_ActiveWhileSubmitted ==
    [][SnapshotsActive(task) /\ task.uuid # None
         => SnapshotsActive(task')]_vars

\* A step of wait in which time passes: a sleep of one second or more.
WaitSleeps == call.op = "wait" /\ todo # <<>> /\ now' > now

\* The bounds of the sleeps of a wait with the timeout T: no sleep is
\* longer than MaxNap, none starts once T has elapsed, and together they
\* are not longer than T.
SleepsWithin ==
    WaitSleeps
        => /\ now' - now <= MaxNap
           /\ IsInt(call.timeout)
                => /\ now - loc.start < Val(call.timeout)
                   /\ now' - loc.start <= Val(call.timeout)

\* C33: in wait the first sleep lasts min(10, timeout), 10 without a
\* timeout, and the later ones min(10, timeout - elapsed); no sleep is
\* longer than 10 seconds, none is started once the timeout has elapsed,
\* and the sleeps of one call with the timeout T sum to at most T.
C33_SleepsWithinTimeout == [][SleepsWithin]_vars

\* C33, what holds: without live progress the sleeps keep the bounds,
\* and each sleep lasts the nap computed before it.
C33_PlainSleepsWithinTimeout ==
    [][(WaitSleeps /\ ~call.live_progress)
          => /\ SleepsWithin
             /\ now' - now = loc.nap
             /\ loc.nap = IF ~IsInt(call.timeout) THEN MaxNap
                          ELSE Min(MaxNap,
                                   Val(call.timeout) - (now - loc.start))]_vars

\* C34: a read of resources creates a disk only when no disk is bound
\* and no disk id is known, and retrieves the known id when no disk is
\* bound; a disk it creates is bound and remembered, and a read with a
\* disk bound looks nothing up and keeps it, so consecutive reads create
\* one disk at most; resources = None forgets the disk and the id, so
\* the read after it asks for a new disk.
C34_ResourcesLazy ==
    [][/\ Calls("resources")
            => /\ InReqs("POST disk")'
                    <=> task.resource_disk = None /\ task.resource_disk_id = None
               /\ InReqs("GET disk")'
                    <=> task.resource_disk = None /\ task.resource_disk_id # None
               /\ InReqs("POST disk")'
                    => \/ /\ task'.resource_disk # None
                          /\ task'.resource_disk \in disks'
                          /\ reqs'[1] = "POST disk"
                       \/ /\ ret' = "QApyException" /\ reqs' = <<"POST disk">>
                          /\ task' = task /\ disks' = disks
               /\ task.resource_disk # None
                    => task'.resource_disk = task.resource_disk
       /\ (Calls("resources=") /\ call'.value = None)
            => /\ task'.resource_disk = None
               /\ task'.resource_disk_id = None
               /\ reqs' = <<>>]_vars

\* C34, witness: the disk of a submitted task was forgotten with
\* resources = None, and the read after it has created a new disk and
\* bound it.
C34_Witness ==
    /\ call.op = "resources"
    /\ reqs # <<>> /\ reqs[1] = "POST disk"
    /\ task.uuid # None
    /\ task.resource_disk # None
    /\ task.resource_disk \in disks

\* C35: between two operations, after any sequence of submit, update,
\* abort, wait and delete, a task without a uuid is in the state
\* UnSubmitted; so is a task whose uuid delete has cleared.
C35_NoUuidUnSubmitted ==
    (todo = <<>> /\ task.uuid = None) => task.state = "UnSubmitted"

\* C35, what holds: a task without a uuid that is not in the state
\* UnSubmitted has been deleted, and the state is the last one fetched
\* before the deletion.
C35_NoUuidBeforeSubmit ==
    [][/\ (task.uuid = None /\ task'.uuid = None)
            => task'.state = task.state
       /\ (task.uuid # None /\ task'.uuid = None)
            => /\ At("delete_task") /\ reqs'[Len(reqs')] = "DELETE task"
               /\ task'.state = task.state]_vars

\* The errors submit can raise.
SubmitErrors ==
    {"QApyException", "ValueError", "MissingTaskException",
     "MaxTaskException", "MissingDiskException",
     MissingDisk(ResourceDiskId), MissingDisk(None)}

\* C36: when submit raises, whatever the error, that of the deferred
\* snapshot request and that of the refresh after the creation included,
\* the task has no uuid, so that a later submit sends the creation
\* request again.
C36_FailedSubmitNoUuid ==
    (call.op = "submit" /\ todo = <<>> /\ ret \in SubmitErrors)
        => task.uuid = None

\* C36, what holds: submit raises with a uuid set only after its
\* creation request has succeeded, from the snapshot request or the
\* refresh that follow it; an error up to the creation request leaves
\* the task without uuid.
C36_FailedSubmitBeforeCreation ==
    (call.op = "submit" /\ todo = <<>> /\ ret \in SubmitErrors
       /\ task.uuid # None)
        => /\ InReqs("POST tasks") \/ InReqs("POST task force")
           /\ reqs[Len(reqs)] \in {"GET task", SnapshotRequest(1),
                                   SnapshotRequest(-1)}

\* A step of update, called or run inside another method.
Updates ==
    \/ Calls("update")
    \/ Takes("update_T") \/ Takes("update_F")

\* C37: an update whose fetch fails, with 404 or with another error
\* status, raises and leaves the task as it was: name, profile, state,
\* status, dirty flag, results count, disk ids and cache timestamp; the
\* timestamp changes only in a step whose fetch has succeeded.
C37_FailedUpdateKeepsTask ==
    [][/\ (Updates /\ ret' \in {"MissingTaskException", "QApyException"})
            => /\ task' = task
               /\ reqs'[Len(reqs')] = "GET task"
               /\ todo' = <<>>
       /\ (Updates /\ Fetches /\ ~srv.exists)
            => ret' = "MissingTaskException"
       /\ task'.last_cache # task.last_cache
            => /\ Fetches /\ srv.exists
               /\ ret' \notin {"MissingTaskException", "QApyException"}
               /\ task'.last_cache = now]_vars

\* C37, witness: an update called with a stale cache has raised the
\* general error, and the task still holds the old state and the old
\* timestamp while the server reports another state.
C37_Witness ==
    /\ call.op = "update"
    /\ ret = "QApyException"
    /\ reqs = <<"GET task">>
    /\ srv.exists /\ srv.state # task.state
    /\ task.last_cache < now
    /\ task.uuid # None

\* abort sends its cancel request in this step.
AbortSendsCancel ==
    /\ call.op = "abort" /\ Takes("abort_cancel")
    /\ reqs' = Append(reqs, "DELETE task")

\* C38: with the server free to change the state of the task between
\* two requests of the client, the cancel request of abort never reaches
\* a task that is in Success, Failure or Cancelled on the server, and
\* abort never deletes a finished task.
C38_AbortSparesFinished ==
    [][AbortSendsCancel
         => /\ ~(srv.exists /\ srv.state \in TerminalStates)
            /\ srv.exists => srv'.exists]_vars

\* C38, what holds: abort sends its cancel request only when the state
\* it has fetched just before is one of the five it cancels.
C38_AbortCancelsFetchedInFlight ==
    [][AbortSendsCancel
         => /\ task.uuid # None
            /\ reqs = <<"GET task">>
            /\ task.state \in {"Submitted", "PartiallyDispatched",
                               "FullyDispatched", "PartiallyExecuting",
                               "FullyExecuting"}]_vars

\* wait has been called with a timeout that ends before the last
\* instant of the model, one second of live progress included.
WaitWithTimeout ==
    /\ call.op = "wait" /\ todo = <<"wait">>
    /\ IsInt(call.timeout)
    /\ now + Val(call.timeout) < MaxTime

\* A wait without timeout is running, the server reports a final state,
\* and the model has the time of one more nap.
WaitOnFinished ==
    /\ call.op = "wait" /\ todo # <<>>
    /\ ~IsInt(call.timeout)
    /\ srv.exists /\ srv.state \in TerminalStates
    /\ now + MaxNap <= MaxTime

WaitEnded == call.op = "wait" /\ todo = <<>>

\* C39: wait terminates.  On a submitted task or not, a call with a
\* finite timeout ends, whatever the server reports.  A call without
\* timeout ends once the server reports a final state and keeps
\* reporting it, and it returns True then, unless a request has failed
\* or the task was dropped and it raises.
C39_WaitTerminates ==
    /\ WaitWithTimeout ~> WaitEnded
    /\ WaitOnFinished
         ~> (WaitEnded /\ ret \in {"True", "QApyException",
                                   "MissingTaskException"})

\* C39, witness: a wait without timeout has slept, polled and returned
\* True for a task the server finished in the meantime.
C39_Witness ==
    /\ call.op = "wait" /\ todo = <<>>
    /\ ~IsInt(call.timeout)
    /\ ret = "True"
    /\ loc.start + MaxNap <= now
    /\ Len(reqs) >= 3
    /\ srv.exists /\ srv.state \in TerminalStates

\* A refresh of the task has succeeded in this step.
Refreshes ==
    /\ Fetches /\ srv.exists
    /\ ret' \notin {"MissingTaskException", "QApyException"}

\* C40: a refresh of the task removes no member of the extra resource
\* set and keeps the members in their order; it adds, after them, the
\* ids the server lists that resolve and are not members, and adds no
\* id that fails to resolve.
C40_RefreshGrowsExtras ==
    [][Refreshes
         => LET before == task.extra_resource_disks
                after == task'.extra_resource_disks
                listed == Members(TaskJson.extraResourceDisks) IN
            /\ Len(after) >= Len(before)
            /\ SubSeq(after, 1, Len(before)) = before
            /\ Members(after)
                 = Members(before) \cup {d \in listed : Resolves(d)}
            /\ NoDuplicates(after)]_vars

\* C40, witness: an update has looked up the two disks the server
\* lists, found one of them gone and added the other to the set.
C40_Witness ==
    /\ call.op = "update" /\ ret = "ok"
    /\ reqs = <<"GET task", "GET disk", "GET disk">>
    /\ Len(task.extra_resource_disks) = 1
    /\ srv.exists
    /\ task.extra_resource_disks[1] \in Members(srv.extraResourceDisks)
    /\ \E d \in Members(srv.extraResourceDisks) :
          ~Resolves(d) /\ d \notin Members(task.extra_resource_disks)

====
